---------------------------- MODULE Spec2Model ----------------------------
(***************************************************************************)
(* The feedback and telemetry analytics engine of the business-review app: *)
(*   - LogAnalyzer        (src/utils/logAnalyzer.js)                       *)
(*   - analyzeSentiment   (src/utils/sentimentAnalysis.js)                 *)
(*   - analyzeAspects     (src/unnamed/part_015, aspect analysis)          *)
(*   - FeedbackAnalyzer   (src/utils/sslConfig.js:318-564)                 *)
(*   - FeedbackCollector  (src/utils/feedbackCollector.js)                 *)
(*   - executeTransaction (src/unnamed/part_011:132-146)                   *)
(*                                                                         *)
(* Strings the code inspects character by character (log messages, review  *)
(* texts) are sequences of one-character strings; a token cut out of such  *)
(* a sequence is turned into a TLA+ string with Join, so that it can be    *)
(* looked up in the keyword tables.  Weights are kept in tenths and scores *)
(* in hundredths, so that all arithmetic is on integers.                   *)
(***************************************************************************)
EXTENDS Integers, Sequences, FiniteSets, TLC

VARIABLES
    results,      \* logAnalyzer.js:25   the accumulator local to analyzeLogs
    analysed,     \* the entries handed to analyzeLogEntry so far (history)
    report,       \* logAnalyzer.js:69   the value analyzeLogs returns
    pc,           \* position of the analyzeLogs run: "reading" | "done"
    text,         \* the review text handed to the text analysis
    call,         \* the text analysis that has returned, "none" before
    returned,     \* what that call returned
    logFiles,     \* logAnalyzer.js:49  the .log files of the log directory
    logRuns,         \* the analyzeLogs calls in flight, each at a suspension point
    accumulators, \* logAnalyzer.js:25  the results object of each call
    feedbackData, \* sslConfig.js:323 this.feedbackData of FeedbackAnalyzer
    patternsErrors, \* sslConfig.js:331 this.patterns.errors of FeedbackAnalyzer
    clock,        \* what Date.now() returns
    priorityCalls, \* the calculatePriority calls made and what they returned
    feedbackReports, \* what the analyzeAllFeedback calls returned, in order
    metrics,      \* feedbackCollector.js:25  this.metrics of FeedbackCollector
    feedbackOutcome, \* how the last collectFeedback call ended, "none" before
    statistics,   \* what the last getStatistics call returned, if any
    succeeded,    \* the collectFeedback calls that returned success since
                  \* the last resetMetrics call (history)
    tx,           \* part_011:132  the executeTransaction call in flight
    rollbacks     \* rollback.js:52  the RollbackManager.rollback calls, the last
                  \* one in flight or done

logVars == <<results, analysed, report, pc>>

textVars == <<text, call, returned>>

runVars == <<logFiles, logRuns, accumulators>>

feedbackVars == <<feedbackData, patternsErrors, clock, priorityCalls, feedbackReports>>

collectorVars == <<metrics, feedbackOutcome, statistics, succeeded>>

txVars == <<tx>>

rollbackVars == <<rollbacks>>

\* The state of the components a specification of the log run or of the
\* text analysis does not touch.
serviceVars == <<runVars, feedbackVars, collectorVars, txVars, rollbackVars>>

vars == <<results, analysed, report, pc, text, call, returned,
          logFiles, logRuns, accumulators,
          feedbackData, patternsErrors, clock, priorityCalls, feedbackReports,
          metrics, feedbackOutcome, statistics, succeeded, tx, rollbacks>>

(***************************************************************************)
(* Characters and strings                                                  *)
(***************************************************************************)

RECURSIVE Join(_)
\* The string whose characters are cs.
Join(cs) ==
    IF cs = <<>> THEN "" ELSE Head(cs) \o Join(Tail(cs))

LowerOf ==
    [A |-> "a", B |-> "b", C |-> "c", D |-> "d", E |-> "e", F |-> "f",
     G |-> "g", H |-> "h", I |-> "i", J |-> "j", K |-> "k", L |-> "l",
     M |-> "m", N |-> "n", O |-> "o", P |-> "p", Q |-> "q", R |-> "r",
     S |-> "s", T |-> "t", U |-> "u", V |-> "v", W |-> "w", X |-> "x",
     Y |-> "y", Z |-> "z"]

\* String.prototype.toLowerCase on one character (ASCII).
Lower(c) ==
    IF c \in DOMAIN LowerOf THEN LowerOf[c] ELSE c

ToLowerCase(cs) ==
    [i \in 1..Len(cs) |-> Lower(cs[i])]

Digits ==
    {"0", "1", "2", "3", "4", "5", "6", "7", "8", "9"}

\* The regular expression class \w: [A-Za-z0-9_].
WordChars ==
    DOMAIN LowerOf \cup {LowerOf[c] : c \in DOMAIN LowerOf} \cup Digits \cup {"_"}

\* The white space String.prototype.trim removes.
WhiteSpace ==
    {" ", "\t", "\n", "\r"}

(***************************************************************************)
(* LogAnalyzer: the error patterns                                         *)
(***************************************************************************)

\* One element of a pattern against one character of the subject, under
\* the flag i: a literal (written in lower case) or the class \d.
ElemMatches(elem, c) ==
    IF elem = "\\d" THEN c \in Digits ELSE Lower(c) = elem

\* Does alternative alt occur in msg at offset i?
MatchAt(alt, msg, i) ==
    \A k \in 1..Len(alt) : ElemMatches(alt[k], msg[i + k - 1])

\* RegExp.prototype.test for an alternation of literal alternatives: the
\* pattern is unanchored, so any offset will do.
RegexTest(alts, msg) ==
    \E a \in 1..Len(alts) :
        \E i \in 1..(Len(msg) - Len(alts[a]) + 1) : MatchAt(alts[a], msg, i)

\* this.errorPatterns, in the enumeration order of the object literal.
errorPatterns ==
    << [type |-> "timeout",
        pattern |-> << <<"t","i","m","e","o","u","t">>,
                       <<"t","i","m","e","d"," ","o","u","t">> >>],
       [type |-> "memory",
        pattern |-> << <<"o","u","t"," ","o","f"," ","m","e","m","o","r","y">>,
                       <<"m","e","m","o","r","y"," ","l","i","m","i","t">> >>],
       [type |-> "database",
        pattern |-> << <<"d","a","t","a","b","a","s","e"," ","e","r","r","o","r">>,
                       <<"c","o","n","n","e","c","t","i","o","n"," ","r","e","f","u","s","e","d">>,
                       <<"d","e","a","d","l","o","c","k">> >>],
       [type |-> "api",
        pattern |-> << <<"a","p","i"," ","e","r","r","o","r">>,
                       <<"r","a","t","e"," ","l","i","m","i","t">>,
                       <<"4","2","9">>,
                       <<"5","\\d","\\d">> >>],
       [type |-> "security",
        pattern |-> << <<"u","n","a","u","t","h","o","r","i","z","e","d">>,
                       <<"f","o","r","b","i","d","d","e","n">>,
                       <<"i","n","v","a","l","i","d"," ","t","o","k","e","n">> >>] >>

\* this.performanceThresholds
RequestThresholdMs == 2000
QueryThresholdMs == 1000
MemoryThresholdMB == 500
CpuThresholdPercent == 80
BytesPerKB == 1024

\* The gap that still joins two error times into one cluster (5 minutes).
ClusterGapMs == 300000

\* How many entries generateSummary keeps of each frequency list.
TopN == 5

RECURSIVE ClassifyFromNoBreak(_, _)
\* ClassifyFrom without the break: the last pattern that matches wins.
ClassifyFromNoBreak(k, message) ==
    IF k > Len(errorPatterns) THEN "other"
    ELSE LET later == ClassifyFromNoBreak(k + 1, message)
         IN  IF later = "other" /\ RegexTest(errorPatterns[k].pattern, message)
             THEN errorPatterns[k].type
             ELSE later

RECURSIVE ClassifyFrom(_, _)
\* The for-of loop of analyzeLogEntry from pattern number k on: the type
\* of the first pattern that matches, 'other' when the loop runs out.
ClassifyFrom(k, message) ==
    IF k > Len(errorPatterns) THEN "other"
    ELSE IF RegexTest(errorPatterns[k].pattern, message)
         THEN errorPatterns[k].type
         ELSE ClassifyFrom(k + 1, message)

ClassifyError(message) ==
    ClassifyFrom(1, message)


(***************************************************************************)
(* LogAnalyzer: entries and the accumulator                                *)
(*                                                                         *)
(* A log entry is a record that holds only the fields the log line has.    *)
(* message is a sequence of characters, path and type are strings,         *)
(* timestamp is in epoch milliseconds, duration in milliseconds.           *)
(***************************************************************************)

\* entry.f used as a condition, f a number: the field is there and not 0.
TruthyNumber(entry, f) ==
    f \in DOMAIN entry /\ entry[f] # 0

\* entry.f used as a condition, f a string: the field is there and not ''.
TruthyString(entry, f) ==
    f \in DOMAIN entry /\ entry[f] # ""

\* entry.f === v
FieldIs(entry, f, v) ==
    f \in DOMAIN entry /\ entry[f] = v

\* The object literal {g1: entry.f1, ...}: fields maps each name g of the
\* new object to the name f of the entry's field; a field the entry lacks
\* is undefined in the object, and is left out here.
Pick(entry, fields) ==
    [g \in {h \in DOMAIN fields : fields[h] \in DOMAIN entry} |-> entry[fields[g]]]

\* A Map, as the sequence of its [key, value] pairs in insertion order.
MapHas(m, k) ==
    \E i \in 1..Len(m) : m[i].key = k

MapGet(m, k) ==
    m[CHOOSE i \in 1..Len(m) : m[i].key = k].value

\* Map.prototype.set: an existing key keeps its place.
MapSet(m, k, v) ==
    IF MapHas(m, k)
    THEN [i \in 1..Len(m) |-> IF m[i].key = k THEN [key |-> k, value |-> v] ELSE m[i]]
    ELSE Append(m, [key |-> k, value |-> v])

\* m.set(k, (m.get(k) || 0) + 1)
MapIncrement(m, k) ==
    MapSet(m, k, (IF MapHas(m, k) THEN MapGet(m, k) ELSE 0) + 1)

\* logAnalyzer.js:25-45
EmptyResults ==
    [errors |-> [timeout |-> 0, memory |-> 0, database |-> 0,
                 api |-> 0, security |-> 0, other |-> 0],
     performance |-> [slowRequests |-> <<>>, slowQueries |-> <<>>,
                      highMemory |-> <<>>, highCpu |-> <<>>],
     patterns |-> [commonErrors |-> <<>>, frequentEndpoints |-> <<>>,
                   errorTimes |-> <<>>]]

\* `${entry.path || 'unknown'}: ${entry.message}`
ErrorKey(entry) ==
    (IF TruthyString(entry, "path") THEN entry.path ELSE "unknown")
        \o ": " \o Join(entry.message)

\* TrackError without the test entry.level === 'error'.
TrackErrorAnyLevel(entry, r) ==
    LET errorType == ClassifyError(entry.message)
    IN  [r EXCEPT
            !.errors[errorType] = @ + 1,
            !.patterns.commonErrors = MapIncrement(@, ErrorKey(entry)),
            !.patterns.errorTimes =
                IF TruthyNumber(entry, "timestamp") THEN Append(@, entry.timestamp) ELSE @]

\* analyzeLogEntry, "Analyze error type" .. "Track error times".
TrackError(entry, r) ==
    IF FieldIs(entry, "level", "error")
    THEN LET errorType == ClassifyError(entry.message)
         IN  [r EXCEPT
                !.errors[errorType] = @ + 1,
                !.patterns.commonErrors = MapIncrement(@, ErrorKey(entry)),
                !.patterns.errorTimes =
                    IF TruthyNumber(entry, "timestamp") THEN Append(@, entry.timestamp) ELSE @]
    ELSE r

\* TrackDuration with >= in the place of > in both comparisons.
TrackDurationFromThreshold(entry, r) ==
    IF TruthyNumber(entry, "duration")
    THEN [r EXCEPT
            !.performance.slowRequests =
                IF FieldIs(entry, "type", "request") /\ entry.duration >= RequestThresholdMs
                THEN Append(@, Pick(entry, [path |-> "path", duration |-> "duration",
                                            timestamp |-> "timestamp"]))
                ELSE @,
            !.performance.slowQueries =
                IF FieldIs(entry, "type", "query") /\ entry.duration >= QueryThresholdMs
                THEN Append(@, Pick(entry, [query |-> "query", duration |-> "duration",
                                            timestamp |-> "timestamp"]))
                ELSE @]
    ELSE r

\* analyzeLogEntry, "Analyze performance".
TrackDuration(entry, r) ==
    IF TruthyNumber(entry, "duration")
    THEN [r EXCEPT
            !.performance.slowRequests =
                IF FieldIs(entry, "type", "request") /\ entry.duration > RequestThresholdMs
                THEN Append(@, Pick(entry, [path |-> "path", duration |-> "duration",
                                            timestamp |-> "timestamp"]))
                ELSE @,
            !.performance.slowQueries =
                IF FieldIs(entry, "type", "query") /\ entry.duration > QueryThresholdMs
                THEN Append(@, Pick(entry, [query |-> "query", duration |-> "duration",
                                            timestamp |-> "timestamp"]))
                ELSE @]
    ELSE r

\* analyzeLogEntry, "Track endpoint frequency".
TrackEndpoint(entry, r) ==
    IF TruthyString(entry, "path")
    THEN [r EXCEPT !.patterns.frequentEndpoints = MapIncrement(@, entry.path)]
    ELSE r

\* analyzeLogEntry, "Track resource usage".
TrackResources(entry, r) ==
    [r EXCEPT
        !.performance.highMemory =
            IF "memory" \in DOMAIN entry
               /\ entry.memory.heapUsed > MemoryThresholdMB * BytesPerKB * BytesPerKB
            THEN Append(@, [used |-> entry.memory.heapUsed]
                           @@ Pick(entry, [timestamp |-> "timestamp"]))
            ELSE @,
        !.performance.highCpu =
            IF "cpu" \in DOMAIN entry /\ entry.cpu.usage > CpuThresholdPercent
            THEN Append(@, [usage |-> entry.cpu.usage]
                           @@ Pick(entry, [timestamp |-> "timestamp"]))
            ELSE @]

\* analyzeLogEntry(entry, results): the accumulator after the call.
analyzeLogEntry(entry, r) ==
    TrackResources(entry, TrackEndpoint(entry, TrackDuration(entry, TrackError(entry, r))))

(***************************************************************************)
(* LogAnalyzer: analyzePatterns, generateSummary, generateRecommendations  *)
(***************************************************************************)

RECURSIVE InsertTime(_, _)
\* t put into the ascending sequence s, behind the elements equal to it.
InsertTime(s, t) ==
    IF s = <<>> THEN <<t>>
    ELSE IF t < Head(s) THEN <<t>> \o s
         ELSE <<Head(s)>> \o InsertTime(Tail(s), t)

RECURSIVE SortTimes(_)
\* errorTimes.sort((a, b) => a - b): ascending.
SortTimes(times) ==
    IF times = <<>> THEN <<>>
    ELSE InsertTime(SortTimes(SubSeq(times, 1, Len(times) - 1)), times[Len(times)])

RECURSIVE InsertByCount(_, _)
\* Pair p put into the sequence s of pairs in descending order of value,
\* behind the pairs of the same value.
InsertByCount(s, p) ==
    IF s = <<>> THEN <<p>>
    ELSE IF p.value > Head(s).value THEN <<p>> \o s
         ELSE <<Head(s)>> \o InsertByCount(Tail(s), p)

RECURSIVE SortByCountDesc(_)
\* entries.sort((a, b) => b[1] - a[1]): descending by count; the sort is
\* stable, so pairs of equal count keep their order.
SortByCountDesc(m) ==
    IF m = <<>> THEN <<>>
    ELSE InsertByCount(SortByCountDesc(SubSeq(m, 1, Len(m) - 1)), m[Len(m)])

\* logAnalyzer.js:162  timeDiff <= 300000
WithinGap(timeDiff) ==
    timeDiff <= ClusterGapMs

\* WorthKeeping with the test currentCluster.length > 0.
WorthKeepingAny(currentCluster) ==
    Len(currentCluster) > 0

\* logAnalyzer.js:165  currentCluster.length > 1
WorthKeeping(currentCluster) ==
    Len(currentCluster) > 1

RECURSIVE ClusterLoop(_, _, _, _)
\* The for loop of analyzePatterns from index i on (1-based); the value is
\* clusters when the loop ends: what is left in currentCluster is not
\* pushed.
ClusterLoop(times, i, clusters, currentCluster) ==
    IF i > Len(times) THEN clusters
    ELSE IF Len(currentCluster) = 0
         THEN ClusterLoop(times, i + 1, clusters, <<times[i]>>)
         ELSE LET lastError == currentCluster[Len(currentCluster)]
                  timeDiff == times[i] - lastError
              IN  IF WithinGap(timeDiff)
                  THEN ClusterLoop(times, i + 1, clusters, Append(currentCluster, times[i]))
                  ELSE ClusterLoop(times, i + 1,
                                   IF WorthKeeping(currentCluster)
                                   THEN Append(clusters, currentCluster)
                                   ELSE clusters,
                                   <<times[i]>>)

\* analyzePatterns(results): errorTimes is sorted in place and
\* errorClusters is added.
analyzePatterns(r) ==
    LET sorted == SortTimes(r.patterns.errorTimes)
    IN  [r EXCEPT !.patterns =
            [commonErrors |-> @.commonErrors,
             frequentEndpoints |-> @.frequentEndpoints,
             errorTimes |-> sorted,
             errorClusters |-> ClusterLoop(sorted, 1, <<>>, <<>>)]]

\* MostFrequent without the sort: the first 5 pairs in insertion order.
MostFrequentUnsorted(m) ==
    SubSeq(m, 1, IF Len(m) < TopN THEN Len(m) ELSE TopN)

\* Array.from(map.entries()).sort((a, b) => b[1] - a[1]).slice(0, 5)
MostFrequent(m) ==
    LET sorted == SortByCountDesc(m)
    IN  SubSeq(sorted, 1, IF Len(sorted) < TopN THEN Len(sorted) ELSE TopN)

\* generateSummary(results), called after analyzePatterns.
generateSummary(r) ==
    [totalErrors |-> r.errors.timeout + r.errors.memory + r.errors.database
                     + r.errors.api + r.errors.security + r.errors.other,
     errorBreakdown |-> r.errors,
     performanceIssues |->
        [slowRequests |-> Len(r.performance.slowRequests),
         slowQueries |-> Len(r.performance.slowQueries),
         highMemory |-> Len(r.performance.highMemory),
         highCpu |-> Len(r.performance.highCpu)],
     mostFrequentErrors |-> MostFrequent(r.patterns.commonErrors),
     mostFrequentEndpoints |-> MostFrequent(r.patterns.frequentEndpoints),
     errorClusters |-> Len(r.patterns.errorClusters)]

\* RuleFires with the test count > 1.
RuleFiresAboveOne(count) ==
    count > 1

\* RuleFires with the test count >= 0.
RuleFiresFromZero(count) ==
    count >= 0

\* The condition of each rule of generateRecommendations: count > 0.
RuleFires(count) ==
    count > 0

\* One block of generateRecommendations: the recommendation is pushed
\* when the rule fires.  (The fixed list of issues is left out.)
Recommend(count, category, priority) ==
    IF RuleFires(count) THEN << [category |-> category, priority |-> priority] >> ELSE <<>>

\* generateRecommendations(results): the recommendations in push order.
generateRecommendations(r) ==
    Recommend(r.errors.database, "Database", "High")
    \o Recommend(Len(r.performance.slowRequests), "Performance", "Medium")
    \o Recommend(Len(r.performance.highMemory), "Memory", "High")
    \o Recommend(r.errors.api, "API", "Medium")
    \o Recommend(r.errors.security, "Security", "High")

(***************************************************************************)
(* LogAnalyzer: the log entries the model feeds to analyzeLogs             *)
(***************************************************************************)

\* The most entries one run analyses.
MaxLogs == 3

\* The most entries one run of the error burst analyses.
MaxBurst == 6

MsgTimedOut ==
    <<"R","e","q","u","e","s","t"," ","t","i","m","e","d"," ","o","u","t">>

MsgRefused ==
    <<"c","o","n","n","e","c","t","i","o","n"," ","r","e","f","u","s","e","d">>

MsgDbTimeout ==
    <<"D","a","t","a","b","a","s","e"," ","e","r","r","o","r",":"," ","q","u","e","r","y"," ","t","i","m","e","o","u","t">>

MsgOutOfMemory ==
    <<"O","u","t"," ","o","f"," ","m","e","m","o","r","y">>

MsgStatus503 ==
    <<"u","p","s","t","r","e","a","m"," ","r","e","t","u","r","n","e","d"," ","5","0","3">>

MsgUnauthorized429 ==
    <<"4","2","9"," ","U","n","a","u","t","h","o","r","i","z","e","d">>

MsgInvalidToken ==
    <<"I","n","v","a","l","i","d"," ","t","o","k","e","n">>

MsgBoom ==
    <<"b","o","o","m">>

MsgDeadlockMemory ==
    <<"d","e","a","d","l","o","c","k"," ","n","e","a","r"," ","m","e","m","o","r","y"," ","l","i","m","i","t">>

MsgStarted ==
    <<"s","e","r","v","e","r"," ","s","t","a","r","t","e","d">>

\* Error entries: one per category, and messages that match two patterns
\* (timeout and database, memory and database, api and security).  The
\* second entry is at once a database error, a slow request and a
\* high-memory sample.
ErrorEntries ==
    { [level |-> "error", message |-> MsgTimedOut, path |-> "/api/a", timestamp |-> 1000],
      [level |-> "error", message |-> MsgRefused, path |-> "/api/b", timestamp |-> 2000,
       type |-> "request", duration |-> 2500, memory |-> [heapUsed |-> 524288001]],
      [level |-> "error", message |-> MsgDbTimeout, path |-> "/api/a", timestamp |-> 400000],
      [level |-> "error", message |-> MsgOutOfMemory],
      [level |-> "error", message |-> MsgStatus503, path |-> "/api/b"],
      [level |-> "error", message |-> MsgUnauthorized429, path |-> "/api/a", timestamp |-> 3000],
      [level |-> "error", message |-> MsgInvalidToken, path |-> "/api/c"],
      [level |-> "error", message |-> MsgBoom, timestamp |-> 0],
      [level |-> "error", message |-> MsgDeadlockMemory, path |-> "/api/c"] }

\* Entries of other levels: a slow request, a slow query, a high-memory
\* and a high-CPU sample, a warning whose message matches a pattern, and
\* a request and a query that took exactly 2000 ms and 1000 ms, the first
\* at a CPU usage of exactly 80.
OtherEntries ==
    { [level |-> "http", message |-> MsgStarted, path |-> "/api/a", timestamp |-> 5000,
       type |-> "request", duration |-> 2001],
      [level |-> "debug", message |-> MsgStarted, timestamp |-> 6000,
       type |-> "query", query |-> "SELECT 1", duration |-> 1001],
      [level |-> "info", message |-> MsgStarted, timestamp |-> 7000,
       memory |-> [heapUsed |-> 524288001], cpu |-> [usage |-> 50]],
      [level |-> "info", message |-> MsgStarted, timestamp |-> 8000,
       memory |-> [heapUsed |-> 524288000], cpu |-> [usage |-> 81]],
      [level |-> "warn", message |-> MsgTimedOut, path |-> "/api/b", timestamp |-> 9000],
      [level |-> "info", message |-> MsgStarted, path |-> "/api/c", timestamp |-> 10000,
       type |-> "request", duration |-> 2000, cpu |-> [usage |-> 80]],
      [level |-> "debug", message |-> MsgStarted, timestamp |-> 11000,
       type |-> "query", query |-> "SELECT 2", duration |-> 1000] }

LogEntries ==
    ErrorEntries \cup OtherEntries

\* The times of an error burst: 361000 is exactly 5 minutes after 61000,
\* 661001 is 1 ms more than 5 minutes after 361000.
BurstTimes ==
    {1000, 61000, 361000, 661001, 1100000}

BurstEntries ==
    { [level |-> "error", message |-> MsgRefused, path |-> "/api/b", timestamp |-> t] :
        t \in BurstTimes }

(***************************************************************************)
(* LogAnalyzer: one run of analyzeLogs                                     *)
(***************************************************************************)

\* Nothing has been returned yet.
NoReport ==
    [summary |-> <<>>, recommendations |-> <<>>]

\* No analyzeLogs run has read anything.
LogsUntouched ==
    /\ results = EmptyResults
    /\ analysed = <<>>
    /\ report = NoReport
    /\ pc = "reading"

\* No text analysis has been called.
TextUntouched ==
    /\ text = <<>>
    /\ call = "none"
    /\ returned = <<>>

\* No concurrent analyzeLogs call has been made.
RunsUntouched ==
    /\ logFiles = <<>>
    /\ logRuns = <<>>
    /\ accumulators = <<>>

\* sslConfig.js:322-343: FeedbackAnalyzer as constructed, nothing analysed.
FeedbackUntouched ==
    /\ feedbackData = [errors |-> <<>>, userFeedback |-> <<>>,
                       performance |-> <<>>, suggestions |-> <<>>]
    /\ patternsErrors = <<>>
    /\ clock = 0
    /\ priorityCalls = <<>>
    /\ feedbackReports = <<>>

\* feedbackCollector.js:25-31: FeedbackCollector as constructed.
CollectorUntouched ==
    /\ metrics = [totalFeedback |-> 0, bugReports |-> 0, featureRequests |-> 0,
                  performanceIssues |-> 0, criticalIssues |-> 0]
    /\ feedbackOutcome = "none"
    /\ statistics = <<>>
    /\ succeeded = 0

\* No transaction has been started.
TxUntouched ==
    tx = <<>>

\* rollback has not been called.
RollbackUntouched ==
    rollbacks = <<>>

ServicesUntouched ==
    RunsUntouched /\ FeedbackUntouched /\ CollectorUntouched /\ TxUntouched /\ RollbackUntouched

Init ==
    LogsUntouched /\ TextUntouched /\ ServicesUntouched

\* logAnalyzer.js:56-63: one log line is parsed and analysed.
AnalyzeLogEntry(entry) ==
    /\ pc = "reading"
    /\ results' = analyzeLogEntry(entry, results)
    /\ analysed' = Append(analysed, entry)
    /\ UNCHANGED <<report, pc>>
    /\ UNCHANGED textVars
    /\ UNCHANGED serviceVars

\* logAnalyzer.js:66-73: the lines are used up; the patterns are analysed
\* and the report is returned (its details are results itself).
ReturnReport ==
    /\ pc = "reading"
    /\ LET r == analyzePatterns(results)
       IN  /\ results' = r
           /\ report' = [summary |-> generateSummary(r),
                         recommendations |-> generateRecommendations(r)]
    /\ pc' = "done"
    /\ UNCHANGED analysed
    /\ UNCHANGED textVars
    /\ UNCHANGED serviceVars

Next ==
    \/ \E entry \in LogEntries : Len(analysed) < MaxLogs /\ AnalyzeLogEntry(entry)
    \/ ReturnReport

Spec ==
    Init /\ [][Next]_vars

\* The most entries one run of the endpoint traffic analyses.
MaxTraffic == 7

\* The paths of the endpoint traffic, in the order in which a run meets
\* them (paths are opaque keys to the analyser, so which path comes first
\* does not matter).
TrafficPaths ==
    <<"/p1", "/p2", "/p3", "/p4", "/p5", "/p6", "/p7", "/p8", "/p9">>

\* Traffic over many endpoints: an error entry for each path and a
\* non-error entry for the first one.
TrafficEntries ==
    { [level |-> "error", message |-> MsgBoom, path |-> TrafficPaths[k]] :
        k \in 1..Len(TrafficPaths) }
    \cup { [level |-> "info", message |-> MsgStarted, path |-> TrafficPaths[1]] }

\* The paths the run has met are TrafficPaths[1..n]; the next entry is for
\* one of them or for the next path.
MeetsInOrder(entry) ==
    \E k \in 1..Len(TrafficPaths) :
        /\ entry.path = TrafficPaths[k]
        /\ k <= Len(results.patterns.frequentEndpoints) + 1

\* One run over endpoint traffic: more distinct paths and error
\* signatures than the summary lists.
NextTraffic ==
    \/ \E entry \in TrafficEntries :
            Len(analysed) < MaxTraffic /\ MeetsInOrder(entry) /\ AnalyzeLogEntry(entry)
    \/ ReturnReport

SpecTraffic ==
    Init /\ [][NextTraffic]_vars

\* A burst of database errors: the same run, fed with error entries that
\* differ only in their time.
NextBurst ==
    \/ \E entry \in BurstEntries : Len(analysed) < MaxBurst /\ AnalyzeLogEntry(entry)
    \/ ReturnReport

SpecBurst ==
    Init /\ [][NextBurst]_vars

(***************************************************************************)
(* Properties of the error clusters (checked under SpecBurst)              *)
(***************************************************************************)

\* The clusters analyzePatterns returned.
ReturnedClusters ==
    results.patterns.errorClusters

\* The times of the error entries analysed: those a Date was pushed for.
ErrorTimesAnalysed ==
    { i \in 1..Len(analysed) :
        analysed[i].level = "error" /\ "timestamp" \in DOMAIN analysed[i]
        /\ analysed[i].timestamp # 0 }

\* The k-th smallest of the error times analysed, counted with repeats.
KthErrorTime(k) ==
    CHOOSE t \in {analysed[i].timestamp : i \in ErrorTimesAnalysed} :
        /\ Cardinality({i \in ErrorTimesAnalysed : analysed[i].timestamp < t}) < k
        /\ k <= Cardinality({i \in ErrorTimesAnalysed : analysed[i].timestamp <= t})

\* The error times analysed, in ascending order.
AscendingErrorTimes ==
    [k \in 1..Cardinality(ErrorTimesAnalysed) |-> KthErrorTime(k)]

\* Positions i..j of the ascending times form a run: every gap in it is
\* at most 5 minutes.
IsRun(times, i, j) ==
    \A k \in i..(j - 1) : times[k + 1] - times[k] <= 300000

\* A run that cannot be extended to the left or to the right.
IsMaximalRun(times, i, j) ==
    /\ IsRun(times, i, j)
    /\ i = 1 \/ times[i] - times[i - 1] > 300000
    /\ j = Len(times) \/ times[j + 1] - times[j] > 300000

\* The first positions of the maximal runs of 2 or more times.
RunStarts(times) ==
    { i \in 1..Len(times) : \E j \in (i + 1)..Len(times) : IsMaximalRun(times, i, j) }

\* C1: every returned error cluster has at least 2 members, two
\* consecutive times in a cluster are at most 300000 ms apart, and the last
\* time of a cluster and the first time of the next returned cluster are
\* more than 300000 ms apart.
C1_ClustersWellFormed ==
    pc = "done" =>
        LET cs == ReturnedClusters
        IN  /\ \A c \in 1..Len(cs) : Len(cs[c]) >= 2
            /\ \A c \in 1..Len(cs) : \A k \in 1..(Len(cs[c]) - 1) :
                    /\ cs[c][k] <= cs[c][k + 1]
                    /\ cs[c][k + 1] - cs[c][k] <= 300000
            /\ \A c \in 1..(Len(cs) - 1) :
                    cs[c + 1][1] - cs[c][Len(cs[c])] > 300000

\* Two clusters were returned, one of them with a gap of exactly 5 minutes.
C1_Witness ==
    /\ pc = "done"
    /\ Len(ReturnedClusters) >= 2
    /\ \E c \in 1..Len(ReturnedClusters) : \E k \in 1..(Len(ReturnedClusters[c]) - 1) :
            ReturnedClusters[c][k + 1] - ReturnedClusters[c][k] = 300000

\* C2: the returned clusters are exactly the maximal runs of 2 or more
\* ascending error times whose consecutive gaps are all at most 300000 ms,
\* wherever the run lies (start, middle or end of the sorted times).
C2_ClustersAreMaximalRuns ==
    pc = "done" =>
        LET times == AscendingErrorTimes
            cs == ReturnedClusters
        IN  /\ Len(cs) = Cardinality(RunStarts(times))
            /\ \A i \in RunStarts(times) : \E c \in 1..Len(cs) :
                    \E j \in (i + 1)..Len(times) :
                        IsMaximalRun(times, i, j) /\ cs[c] = SubSeq(times, i, j)

(***************************************************************************)
(* Properties of the classification and of the recommendations (Spec)      *)
(***************************************************************************)

\* The alternatives of the pattern the table holds for a category.
PatternOf(type) ==
    errorPatterns[CHOOSE k \in 1..Len(errorPatterns) : errorPatterns[k].type = type].pattern

\* The order of the categories the classification is to follow.
CategoryOrder ==
    <<"timeout", "memory", "database", "api", "security">>

\* The categories whose pattern matches the message.
MatchingCategories(message) ==
    { k \in 1..Len(CategoryOrder) : RegexTest(PatternOf(CategoryOrder[k]), message) }

\* The first category of the order whose pattern matches, else 'other'.
FirstMatchingCategory(message) ==
    IF MatchingCategories(message) = {} THEN "other"
    ELSE CategoryOrder[CHOOSE k \in MatchingCategories(message) :
                            \A m \in MatchingCategories(message) : k <= m]

\* FirstMatchingCategory of every message the entries carry, worked out
\* once.
ExpectedCategory ==
    [message \in {entry.message : entry \in LogEntries \cup BurstEntries} |->
        FirstMatchingCategory(message)]

\* The entries analysed so far that are to count under the category.
ErrorsExpectedUnder(category) ==
    { i \in 1..Len(analysed) :
        analysed[i].level = "error" /\ ExpectedCategory[analysed[i].message] = category }

\* C3: every entry of level 'error' is counted under the first category in
\* the order timeout, memory, database, api, security whose pattern matches
\* its message, under 'other' when none matches, and under no other
\* category.
C3_FirstMatchWins ==
    \A category \in DOMAIN results.errors :
        results.errors[category] = Cardinality(ErrorsExpectedUnder(category))

\* An error whose message matches the timeout and the database pattern was
\* counted, and the database counter is still 0.
C3_Witness ==
    /\ \E i \in ErrorsExpectedUnder("timeout") :
            analysed[i].message = MsgDbTimeout
    /\ {1, 3} \subseteq MatchingCategories(MsgDbTimeout)
    /\ results.errors.timeout >= 1
    /\ results.errors.database = 0

\* The counts the rules of generateRecommendations read, by the category
\* of the recommendation each rule pushes.
RuleCount ==
    [Database |-> results.errors.database,
     Performance |-> Len(results.performance.slowRequests),
     Memory |-> Len(results.performance.highMemory),
     API |-> results.errors.api,
     Security |-> results.errors.security]

\* The counts no rule reads: three error categories, two dimensions.
UnruledCount ==
    [timeout |-> results.errors.timeout,
     memory |-> results.errors.memory,
     other |-> results.errors.other,
     slowQueries |-> Len(results.performance.slowQueries),
     highCpu |-> Len(results.performance.highCpu)]

Recommended(category) ==
    \E k \in 1..Len(report.recommendations) : report.recommendations[k].category = category

\* C9 as claimed: every error category and every performance dimension
\* whose count is greater than 0 has a recommendation of its own.
C9_EveryCountRecommended ==
    pc = "done" =>
        /\ \A category \in DOMAIN RuleCount : RuleCount[category] > 0 => Recommended(category)
        /\ Len(report.recommendations) >=
                Cardinality({c \in DOMAIN RuleCount : RuleCount[c] > 0})
                + Cardinality({c \in DOMAIN UnruledCount : UnruledCount[c] > 0})

\* C9 as amended: the database, api and security error categories and the
\* slow-request and high-memory dimensions each get a recommendation
\* whenever their count is greater than 0, several in one run when several
\* counts are; the other categories and dimensions add none.
C9_RuledCountsRecommended ==
    pc = "done" =>
        /\ \A category \in DOMAIN RuleCount : RuleCount[category] > 0 => Recommended(category)
        /\ Len(report.recommendations) =
                Cardinality({c \in DOMAIN RuleCount : RuleCount[c] > 0})

\* Several rules fired in one run, and a timeout error and a slow query
\* were counted in it too.
C9_Witness ==
    /\ pc = "done"
    /\ Len(report.recommendations) >= 3
    /\ results.errors.timeout > 0
    /\ Len(results.performance.slowQueries) > 0

\* C10: a recommendation is emitted only for a count of at least 1: a
\* Database, API or Security recommendation implies the matching error
\* count is at least 1, a Performance or Memory recommendation that the
\* slow-request or high-memory list is not empty.
C10_NoRecommendationForZero ==
    pc = "done" =>
        \A k \in 1..Len(report.recommendations) :
            LET category == report.recommendations[k].category
            IN  /\ category \in DOMAIN RuleCount
                /\ RuleCount[category] >= 1

\* A run that returned some recommendation while the api count, the
\* security count and the slow-request list stayed at 0.
C10_Witness ==
    /\ pc = "done"
    /\ Len(report.recommendations) >= 1
    /\ results.errors.api = 0
    /\ results.errors.security = 0
    /\ Len(results.performance.slowRequests) = 0
    /\ Len(analysed) >= 2

(***************************************************************************)
(* analyzeSentiment (sentimentAnalysis.js)                                 *)
(***************************************************************************)

\* POSITIVE_KEYWORDS, the weights in tenths.
POSITIVE_KEYWORDS ==
    [excellent |-> 10, amazing |-> 10, great |-> 8, good |-> 5, nice |-> 5,
     decent |-> 3, friendly |-> 6, clean |-> 4, recommend |-> 7, delicious |-> 8,
     fantastic |-> 9, helpful |-> 6, professional |-> 7]

\* NEGATIVE_KEYWORDS, the weights in tenths.
NEGATIVE_KEYWORDS ==
    [terrible |-> -10, horrible |-> -10, bad |-> -7, poor |-> -6, dirty |-> -6,
     rude |-> -8, slow |-> -4, expensive |-> -5, disappointing |-> -7, awful |-> -9,
     mediocre |-> -4, unprofessional |-> -7]

\* Is c a separator of the split?  kind "nonword" is the pattern /\W+/,
\* kind "sentence" the pattern /[.!?]+/.
IsSeparator(kind, c) ==
    IF kind = "nonword" THEN c \notin WordChars ELSE c \in {".", "!", "?"}

RECURSIVE SplitFrom(_, _, _, _, _, _)
\* String.prototype.split on runs of separators, from index i on: parts
\* are the pieces cut off so far, current the piece being read, inRun says
\* that the character before was a separator.  A separator at the start or
\* at the end of the string leaves an empty piece there.
SplitFrom(cs, kind, i, parts, current, inRun) ==
    IF i > Len(cs) THEN Append(parts, current)
    ELSE IF IsSeparator(kind, cs[i])
         THEN IF inRun
              THEN SplitFrom(cs, kind, i + 1, parts, current, TRUE)
              ELSE SplitFrom(cs, kind, i + 1, Append(parts, current), <<>>, TRUE)
         ELSE SplitFrom(cs, kind, i + 1, parts, Append(current, cs[i]), FALSE)

\* cs.split(/\W+/): the words, as strings.
SplitWords(cs) ==
    LET parts == SplitFrom(cs, "nonword", 1, <<>>, <<>>, FALSE)
    IN  [k \in 1..Len(parts) |-> Join(parts[k])]

\* a / b rounded to the nearest integer, a half away from zero (b > 0).
RoundDiv(a, b) ==
    IF a >= 0 THEN (2 * a + b) \div (2 * b)
    ELSE -((2 * (-a) + b) \div (2 * b))

\* parseFloat((num / den).toFixed(2)), in hundredths.
ToFixed2(num, den) ==
    RoundDiv(100 * num, den)

\* The smaller of two fractions with positive denominators.
MinFraction(p, q) ==
    IF p.num * q.den <= q.num * p.den THEN p ELSE q

\* sentimentAnalysis.js:44-50 with every match counted only the first time
\* its word is met.
ScoreWordOnce(acc, word) ==
    IF \E k \in 1..Len(acc.matchedWords) : acc.matchedWords[k].word = word THEN acc
    ELSE IF word \in DOMAIN POSITIVE_KEYWORDS
    THEN [totalScore |-> acc.totalScore + POSITIVE_KEYWORDS[word],
          matchedWords |-> Append(acc.matchedWords,
                                  [word |-> word, score |-> POSITIVE_KEYWORDS[word]])]
    ELSE IF word \in DOMAIN NEGATIVE_KEYWORDS
    THEN [totalScore |-> acc.totalScore + NEGATIVE_KEYWORDS[word],
          matchedWords |-> Append(acc.matchedWords,
                                  [word |-> word, score |-> NEGATIVE_KEYWORDS[word]])]
    ELSE acc

\* sentimentAnalysis.js:44-50: the body of the loop over the words.
ScoreWord(acc, word) ==
    IF word \in DOMAIN POSITIVE_KEYWORDS
    THEN [totalScore |-> acc.totalScore + POSITIVE_KEYWORDS[word],
          matchedWords |-> Append(acc.matchedWords,
                                  [word |-> word, score |-> POSITIVE_KEYWORDS[word]])]
    ELSE IF word \in DOMAIN NEGATIVE_KEYWORDS
    THEN [totalScore |-> acc.totalScore + NEGATIVE_KEYWORDS[word],
          matchedWords |-> Append(acc.matchedWords,
                                  [word |-> word, score |-> NEGATIVE_KEYWORDS[word]])]
    ELSE acc

RECURSIVE ScoreWords(_, _, _)
\* The loop over the words from index i on.
ScoreWords(words, i, acc) ==
    IF i > Len(words) THEN acc
    ELSE ScoreWords(words, i + 1, ScoreWord(acc, words[i]))

\* Math.min(matchedWords.length / 3, 1) without the Math.min.
ConfidenceUncapped(matched) ==
    [num |-> matched, den |-> 3]

\* Math.min(matchedWords.length / 3, 1), as a fraction.
Confidence(matched) ==
    MinFraction([num |-> matched, den |-> 3], [num |-> 1, den |-> 1])

\* normalizedScore with the division left out.
NormalizedScoreUndivided(totalScore, matched) ==
    [num |-> totalScore, den |-> 10]

\* sentimentAnalysis.js:54-56: normalizedScore, as a fraction; totalScore
\* is in tenths, so the quotient is totalScore / (10 * length).
NormalizedScore(totalScore, matched) ==
    IF matched > 0
    THEN [num |-> totalScore, den |-> 10 * (IF matched > 1 THEN matched ELSE 1)]
    ELSE [num |-> 0, den |-> 1]

\* analyzeSentiment(text): score in hundredths, confidence as a fraction.
analyzeSentiment(cs) ==
    LET words == SplitWords(ToLowerCase(cs))
        acc == ScoreWords(words, 1, [totalScore |-> 0, matchedWords |-> <<>>])
        normalizedScore == NormalizedScore(acc.totalScore, Len(acc.matchedWords))
    IN  [score |-> ToFixed2(normalizedScore.num, normalizedScore.den),
         matchedWords |-> acc.matchedWords,
         confidence |-> Confidence(Len(acc.matchedWords))]

(***************************************************************************)
(* analyzeAspects (aspect analysis, src/unnamed/part_015)                  *)
(***************************************************************************)

\* ASPECT_KEYWORDS, in the enumeration order of the object literal.
ASPECT_KEYWORDS ==
    << [aspect |-> "service",
        keywords |-> <<"service", "staff", "waiter", "waitress", "server", "host",
                       "hostess", "employee", "attention", "responsive", "quick",
                       "slow", "friendly", "rude", "helpful", "attentive">>],
       [aspect |-> "food",
        keywords |-> <<"food", "dish", "meal", "taste", "flavor", "delicious",
                       "portion", "menu", "cuisine", "appetizer", "entree",
                       "dessert", "drink", "beverage", "fresh", "stale">>],
       [aspect |-> "pricing",
        keywords |-> <<"price", "value", "expensive", "cheap", "affordable",
                       "overpriced", "cost", "worth", "deal", "bargain",
                       "pricey", "reasonable", "fair", "money">>],
       [aspect |-> "ambiance",
        keywords |-> <<"ambiance", "atmosphere", "decor", "music", "noise",
                       "lighting", "comfortable", "clean", "dirty", "cozy",
                       "crowded", "quiet", "romantic", "space", "interior">>],
       [aspect |-> "location",
        keywords |-> <<"location", "parking", "accessible", "neighborhood",
                       "area", "street", "downtown", "distance", "convenient",
                       "nearby", "far", "close">>] >>

RECURSIVE Trim(_)
\* String.prototype.trim
Trim(cs) ==
    IF cs = <<>> THEN cs
    ELSE IF Head(cs) \in WhiteSpace THEN Trim(Tail(cs))
    ELSE IF cs[Len(cs)] \in WhiteSpace THEN Trim(SubSeq(cs, 1, Len(cs) - 1))
    ELSE cs

\* Array.prototype.filter
RECURSIVE Filter(_, _)
Filter(s, keep) ==
    IF s = <<>> THEN <<>>
    ELSE (IF Head(s) \in keep THEN <<Head(s)>> ELSE <<>>) \o Filter(Tail(s), keep)

\* part_015:96-99: the sentences of the review, lower-cased, trimmed, the
\* empty ones dropped.
Sentences(reviewText) ==
    LET parts == SplitFrom(ToLowerCase(reviewText), "sentence", 1, <<>>, <<>>, FALSE)
        trimmed == [k \in 1..Len(parts) |-> Trim(parts[k])]
    IN  Filter(trimmed, {trimmed[k] : k \in 1..Len(trimmed)} \ {<<>>})

\* part_015:119 with words.some(word => word.includes(keyword)) in the
\* place of words.includes(keyword): a keyword matches inside a word too.
KeywordMatchesSubstring(keywords, words) ==
    LET Inside(keyword) ==
            \E k \in 1..Len(words) : \E i \in 1..Len(words[k]) :
                /\ i + Len(keyword) - 1 <= Len(words[k])
                /\ SubSeq(words[k], i, i + Len(keyword) - 1) = keyword
    IN  SelectSeq(keywords, Inside)

\* part_015:119: keywords.filter(keyword => words.includes(keyword))
KeywordMatches(keywords, words) ==
    Filter(keywords, {words[k] : k \in 1..Len(words)})

RECURSIVE AddAll(_, _)
\* matches.forEach(match => set.add(match)): a Set as the sequence of its
\* members in insertion order.
AddAll(set, matches) ==
    IF matches = <<>> THEN set
    ELSE AddAll(IF \E k \in 1..Len(set) : set[k] = Head(matches)
                THEN set ELSE Append(set, Head(matches)),
                Tail(matches))

\* part_015:124 with the keywords counted instead of the sentence.
MentionsAddedPerKeyword(matches) ==
    Len(matches)

\* part_015:124: mentionCount++ for a sentence that matched.
MentionsAdded(matches) ==
    1

\* part_015:119-125: one aspect's container after one sentence.
CategorizeSentence(data, keywords, sentence) ==
    LET matches == KeywordMatches(keywords, SplitWords(sentence))
    IN  IF Len(matches) > 0
        THEN [sentences |-> Append(data.sentences, sentence),
              matchedKeywords |-> AddAll(data.matchedKeywords, matches),
              sentimentScore |-> data.sentimentScore,
              mentionCount |-> data.mentionCount + MentionsAdded(matches)]
        ELSE data

RECURSIVE Categorize(_, _, _)
\* part_015:114-127: the sentences from index i on, for one aspect (the
\* containers of the aspects do not depend on each other).
Categorize(data, keywords, sentences) ==
    IF sentences = <<>> THEN data
    ELSE Categorize(CategorizeSentence(data, keywords, Head(sentences)),
                    keywords, Tail(sentences))

\* part_015:104-127: aspectResults, one container per aspect of the table.
AspectContainers(sentences) ==
    [a \in 1..Len(ASPECT_KEYWORDS) |->
        [aspect |-> ASPECT_KEYWORDS[a].aspect,
         data |-> Categorize([sentences |-> <<>>, matchedKeywords |-> <<>>,
                              sentimentScore |-> 0, mentionCount |-> 0],
                             ASPECT_KEYWORDS[a].keywords, sentences)]]

RECURSIVE JoinSentences(_)
\* data.sentences.join('. ')
JoinSentences(sentences) ==
    IF sentences = <<>> THEN <<>>
    ELSE IF Len(sentences) = 1 THEN sentences[1]
    ELSE sentences[1] \o <<".", " ">> \o JoinSentences(Tail(sentences))

RECURSIVE AspectEntries(_)
\* part_015:130-144: the entries of results, in insertion order: one per
\* container that holds a sentence.
AspectEntries(containers) ==
    IF containers = <<>> THEN <<>>
    ELSE LET data == Head(containers).data
             sentimentAnalysis == analyzeSentiment(JoinSentences(data.sentences))
         IN  (IF Len(data.sentences) > 0
              THEN << [aspect |-> Head(containers).aspect,
                       score |-> sentimentAnalysis.score,
                       confidence |-> sentimentAnalysis.confidence,
                       mentions |-> data.mentionCount,
                       keywords |-> data.matchedKeywords,
                       relevantText |-> data.sentences] >>
              ELSE <<>>) \o AspectEntries(Tail(containers))

RECURSIVE InsertByMentionsTiesFirst(_, _)
\* InsertByMentions that puts an entry before those of the same mentions.
InsertByMentionsTiesFirst(s, e) ==
    IF s = <<>> THEN <<e>>
    ELSE IF e.mentions >= Head(s).mentions THEN <<e>> \o s
         ELSE <<Head(s)>> \o InsertByMentionsTiesFirst(Tail(s), e)

RECURSIVE InsertByMentions(_, _)
\* Entry e put into the sequence s of entries in descending order of
\* mentions, behind the entries of the same mentions.
InsertByMentions(s, e) ==
    IF s = <<>> THEN <<e>>
    ELSE IF e.mentions > Head(s).mentions THEN <<e>> \o s
         ELSE <<Head(s)>> \o InsertByMentions(Tail(s), e)

RECURSIVE SortByMentionsDesc(_)
\* aspects.sort((a, b) => b[1].mentions - a[1].mentions): stable.
SortByMentionsDesc(entries) ==
    IF entries = <<>> THEN <<>>
    ELSE InsertByMentions(SortByMentionsDesc(SubSeq(entries, 1, Len(entries) - 1)),
                          entries[Len(entries)])

RECURSIVE SumScores(_)
\* aspects.reduce((sum, [_, data]) => sum + data.score, 0)
SumScores(entries) ==
    IF entries = <<>> THEN 0 ELSE Head(entries).score + SumScores(Tail(entries))

\* The number of dominant aspects the summary keeps.
DominantKept == 2

\* generateAspectSummary without its guard aspects.length === 0
\* (part_015:159): the mean of no scores is 0 / 0, which is NaN.
generateAspectSummaryUnguarded(entries) ==
    LET sorted == SortByMentionsDesc(entries)
        top == SubSeq(sorted, 1, IF Len(sorted) < DominantKept
                                 THEN Len(sorted) ELSE DominantKept)
    IN  [overallScore |-> IF Len(entries) = 0 THEN "NaN"
                          ELSE ToFixed2(SumScores(entries), 100 * Len(entries)),
         dominantAspects |->
            [k \in 1..Len(top) |-> [aspect |-> top[k].aspect,
                                    mentions |-> top[k].mentions,
                                    score |-> top[k].score]]]

\* generateAspectSummary(aspectResults); null is the empty record here.
generateAspectSummary(entries) ==
    IF Len(entries) = 0 THEN [null |-> TRUE]
    ELSE LET sorted == SortByMentionsDesc(entries)
             top == SubSeq(sorted, 1, IF Len(sorted) < DominantKept
                                      THEN Len(sorted) ELSE DominantKept)
         IN  [overallScore |-> ToFixed2(SumScores(entries), 100 * Len(entries)),
              dominantAspects |->
                [k \in 1..Len(top) |-> [aspect |-> top[k].aspect,
                                        mentions |-> top[k].mentions,
                                        score |-> top[k].score]]]

\* analyzeAspects(reviewText)
analyzeAspects(reviewText) ==
    LET entries == AspectEntries(AspectContainers(Sentences(reviewText)))
    IN  [aspects |-> entries, summary |-> generateAspectSummary(entries)]

(***************************************************************************)
(* The texts the model feeds to the text analysis                          *)
(***************************************************************************)

\* The most pieces a text for analyzeSentiment is put together from.
MaxSentimentPieces == 4

\* The most pieces a text for analyzeAspects is put together from.
MaxAspectPieces == 4

RECURSIVE TextsUpTo(_, _)
\* The texts put together from at most n of the pieces, end to end.
TextsUpTo(pieces, n) ==
    IF n = 0 THEN {<<>>}
    ELSE LET shorter == TextsUpTo(pieces, n - 1)
         IN  shorter \cup {t \o p : t \in shorter, p \in pieces}

\* "good ", "Excellent!", "terrible ", "expensive,", "so", " ": keywords
\* of weight 0.5, 1.0, -1.0 and -0.5 (all of them exact as binary
\* fractions, so the sums of the code are exact too), each followed by a
\* separator, and a word that is no keyword and that, put before a
\* keyword, makes a longer word of it.
SentimentPieces ==
    { <<"g","o","o","d"," ">>,
      <<"E","x","c","e","l","l","e","n","t","!">>,
      <<"t","e","r","r","i","b","l","e"," ">>,
      <<"e","x","p","e","n","s","i","v","e",",">>,
      <<"s","o">>,
      <<" ">> }

SentimentTexts ==
    TextsUpTo(SentimentPieces, MaxSentimentPieces)

\* "fresh food", "slow", "expensive ", ". ", " ", "s": two keywords of the
\* aspect food, one of service, one of pricing, the end of a sentence, a
\* blank, and a letter that makes a longer word of the word before it.
AspectPieces ==
    { <<"f","r","e","s","h"," ","f","o","o","d">>,
      <<"s","l","o","w">>,
      <<"e","x","p","e","n","s","i","v","e"," ">>,
      <<"."," ">>,
      <<" ">>,
      <<"s">> }

\* "The food was delicious and the service was excellent"
ExampleReview ==
    <<"T","h","e"," ","f","o","o","d"," ","w","a","s"," ","d",
      "e","l","i","c","i","o","u","s"," ","a","n","d"," ","t",
      "h","e"," ","s","e","r","v","i","c","e"," ","w","a","s",
      " ","e","x","c","e","l","l","e","n","t">>

AspectTexts ==
    TextsUpTo(AspectPieces, MaxAspectPieces) \cup {ExampleReview}

(***************************************************************************)
(* The text analysis: one call on one text                                 *)
(***************************************************************************)

InitSentiment ==
    /\ LogsUntouched
    /\ ServicesUntouched
    /\ text \in SentimentTexts
    /\ call = "none"
    /\ returned = <<>>

\* analyzeSentiment(text) is called and returns.
AnalyzeSentiment ==
    /\ call = "none"
    /\ call' = "analyzeSentiment"
    /\ returned' = analyzeSentiment(text)
    /\ UNCHANGED text
    /\ UNCHANGED logVars
    /\ UNCHANGED serviceVars

SpecSentiment ==
    InitSentiment /\ [][AnalyzeSentiment]_vars

InitAspects ==
    /\ LogsUntouched
    /\ ServicesUntouched
    /\ text \in AspectTexts
    /\ call = "none"
    /\ returned = <<>>

\* analyzeAspects(text) is called and returns.
AnalyzeAspects ==
    /\ call = "none"
    /\ call' = "analyzeAspects"
    /\ returned' = analyzeAspects(text)
    /\ UNCHANGED text
    /\ UNCHANGED logVars
    /\ UNCHANGED serviceVars

SpecAspects ==
    InitAspects /\ [][AnalyzeAspects]_vars

(***************************************************************************)
(* Properties of analyzeSentiment (checked under SpecSentiment)            *)
(***************************************************************************)

\* The maximal runs of word characters of cs, each as <<first, last>>.
WordRuns(cs) ==
    { run \in (1..Len(cs)) \X (1..Len(cs)) :
        /\ run[1] <= run[2]
        /\ \A k \in run[1]..run[2] : cs[k] \in WordChars
        /\ run[1] = 1 \/ cs[run[1] - 1] \notin WordChars
        /\ run[2] = Len(cs) \/ cs[run[2] + 1] \notin WordChars }

\* The token a run of cs spells, in lower case.
TokenAt(cs, run) ==
    Join(ToLowerCase(SubSeq(cs, run[1], run[2])))

Keywords ==
    DOMAIN POSITIVE_KEYWORDS \cup DOMAIN NEGATIVE_KEYWORDS

\* The weight of a keyword, in tenths.
WeightOf(word) ==
    IF word \in DOMAIN POSITIVE_KEYWORDS
    THEN POSITIVE_KEYWORDS[word] ELSE NEGATIVE_KEYWORDS[word]

\* The runs of cs that spell a keyword: one per occurrence.
KeywordRuns(cs) ==
    { run \in WordRuns(cs) : TokenAt(cs, run) \in Keywords }

RECURSIVE SumOfWeights(_, _)
\* The sum of the weights of the keywords the runs spell.
SumOfWeights(cs, runs) ==
    IF runs = {} THEN 0
    ELSE LET run == CHOOSE r \in runs : TRUE
         IN  WeightOf(TokenAt(cs, run)) + SumOfWeights(cs, runs \ {run})

\* score (hundredths) is totalTenths / (10 * count) rounded to 2 decimals.
IsRoundedQuotient(score, totalTenths, count) ==
    LET error == score * 10 * count - 100 * totalTenths
    IN  -5 * count <= error /\ error <= 5 * count

\* C4: score and confidence are 0 when no token is a keyword; otherwise
\* score is the sum of the weights of all matched tokens divided by their
\* number (an occurrence counts each time), rounded to 2 decimals, and
\* confidence is min(matchedCount / 3, 1).
C4_ScoreIsMeanWeight ==
    call = "analyzeSentiment" =>
        LET matchedCount == Cardinality(KeywordRuns(text))
            totalWeight == SumOfWeights(text, KeywordRuns(text))
        IN  IF matchedCount = 0
            THEN returned.score = 0 /\ returned.confidence.num = 0
            ELSE /\ IsRoundedQuotient(returned.score, totalWeight, matchedCount)
                 /\ 3 * returned.confidence.num =
                        (IF matchedCount < 3 THEN matchedCount ELSE 3)
                        * returned.confidence.den

\* Four keywords matched, one of them twice, with a score that is not a
\* whole number of tenths.
C4_Witness ==
    /\ call = "analyzeSentiment"
    /\ Len(returned.matchedWords) = 4
    /\ returned.matchedWords[1].word = returned.matchedWords[3].word
    /\ returned.score % 10 # 0

\* C5: -1 <= score <= 1 and 0 <= confidence <= 1.
C5_ScoreAndConfidenceInRange ==
    call = "analyzeSentiment" =>
        /\ -100 <= returned.score /\ returned.score <= 100
        /\ returned.confidence.den > 0
        /\ 0 <= returned.confidence.num
        /\ returned.confidence.num <= returned.confidence.den

\* Four keywords of weight 1.0 matched: score and confidence are both 1.
C5_Witness ==
    /\ call = "analyzeSentiment"
    /\ Len(returned.matchedWords) = 4
    /\ returned.score = 100
    /\ returned.confidence.num = returned.confidence.den

(***************************************************************************)
(* Properties of analyzeAspects (checked under SpecAspects)                *)
(***************************************************************************)

\* Is the aspect among the returned ones?
HasAspect(aspect) ==
    \E k \in 1..Len(returned.aspects) : returned.aspects[k].aspect = aspect

\* The returned entry of an aspect.
AspectResult(aspect) ==
    returned.aspects[CHOOSE k \in 1..Len(returned.aspects) :
                        returned.aspects[k].aspect = aspect]

\* C6 as claimed: for the example review food scores 0.80, service 1.00
\* and the overall score is 0.90.
C6_ExampleScoresAsClaimed ==
    (call = "analyzeAspects" /\ text = ExampleReview) =>
        /\ HasAspect("food") /\ AspectResult("food").score = 80
        /\ HasAspect("service") /\ AspectResult("service").score = 100
        /\ returned.summary.overallScore = 90

\* C6 as amended: for the example review food scores 0.90, service 0.90
\* and the overall score is 0.90 (each aspect is scored on the whole
\* sentence, which holds both 'delicious' and 'excellent').
C6_ExampleScores ==
    (call = "analyzeAspects" /\ text = ExampleReview) =>
        /\ HasAspect("food") /\ AspectResult("food").score = 90
        /\ HasAspect("service") /\ AspectResult("service").score = 90
        /\ returned.summary.overallScore = 90

\* analyzeAspects has returned for the example review.
C6_Witness ==
    /\ call = "analyzeAspects"
    /\ text = ExampleReview
    /\ Len(returned.aspects) = 2

\* The keywords of an aspect, as a set.
KeywordsOf(aspect) ==
    LET entry == ASPECT_KEYWORDS[CHOOSE a \in 1..Len(ASPECT_KEYWORDS) :
                                    ASPECT_KEYWORDS[a].aspect = aspect]
    IN  {entry.keywords[k] : k \in 1..Len(entry.keywords)}

AspectNames ==
    {ASPECT_KEYWORDS[a].aspect : a \in 1..Len(ASPECT_KEYWORDS)}

\* The tokens of a sentence.
TokensOf(sentence) ==
    { TokenAt(sentence, run) : run \in WordRuns(sentence) }

\* The sentences (by position) one of whose tokens is a keyword of the
\* aspect; tokens[k] are the tokens of sentence k.
SentencesMatching(tokens, aspect) ==
    { k \in DOMAIN tokens : tokens[k] \cap KeywordsOf(aspect) # {} }

RECURSIVE SumOfMentions(_)
SumOfMentions(entries) ==
    IF entries = <<>> THEN 0 ELSE Head(entries).mentions + SumOfMentions(Tail(entries))

\* C7: an aspect is returned if and only if a sentence matched it, its
\* mentions is the number of sentences that matched it, and the sum of
\* the mentions is at least the number of distinct sentences that matched
\* some aspect.
C7_MentionsCountSentences ==
    call = "analyzeAspects" =>
        LET sentences == Sentences(text)
            tokens == [k \in 1..Len(sentences) |-> TokensOf(sentences[k])]
        IN  /\ \A aspect \in AspectNames :
                /\ HasAspect(aspect) <=> SentencesMatching(tokens, aspect) # {}
                /\ HasAspect(aspect) =>
                        AspectResult(aspect).mentions
                            = Cardinality(SentencesMatching(tokens, aspect))
            /\ SumOfMentions(returned.aspects) >=
                    Cardinality({ sentences[k] :
                        k \in UNION {SentencesMatching(tokens, a) : a \in AspectNames} })

\* An aspect was returned with 2 mentions and 2 keywords found in each of
\* its sentences, another aspect with 1 mention.
C7_Witness ==
    /\ call = "analyzeAspects"
    /\ \E k \in 1..Len(returned.aspects) :
            /\ returned.aspects[k].mentions = 2
            /\ Len(returned.aspects[k].keywords) = 2
            /\ Len(returned.aspects[k].relevantText) = 2
    /\ \E k \in 1..Len(returned.aspects) : returned.aspects[k].mentions = 1

\* The order of the aspect table.
AspectOrder ==
    <<"service", "food", "pricing", "ambiance", "location">>

PlaceInTable(aspect) ==
    CHOOSE k \in 1..Len(AspectOrder) : AspectOrder[k] = aspect

\* Aspect x ranks before aspect y: more mentions, or as many and earlier
\* in the table.
RanksBefore(x, y) ==
    \/ AspectResult(x).mentions > AspectResult(y).mentions
    \/ /\ AspectResult(x).mentions = AspectResult(y).mentions
       /\ PlaceInTable(x) < PlaceInTable(y)

\* C8: dominantAspects holds the (at most) 2 returned aspects with the
\* largest mentions, in non-increasing order of mentions; of aspects with
\* equal mentions the one earlier in the table service, food, pricing,
\* ambiance, location ranks first.
C8_DominantAspects ==
    (call = "analyzeAspects" /\ Len(returned.aspects) > 0) =>
        LET dominant == returned.summary.dominantAspects
            names == {dominant[k].aspect : k \in 1..Len(dominant)}
        IN  /\ Len(dominant) = (IF Len(returned.aspects) < 2 THEN Len(returned.aspects) ELSE 2)
            /\ \A k \in 1..Len(dominant) :
                /\ HasAspect(dominant[k].aspect)
                /\ dominant[k].mentions = AspectResult(dominant[k].aspect).mentions
            /\ \A k \in 1..(Len(dominant) - 1) :
                RanksBefore(dominant[k].aspect, dominant[k + 1].aspect)
            /\ \A k \in 1..Len(returned.aspects) :
                returned.aspects[k].aspect \notin names =>
                    \A x \in names : RanksBefore(x, returned.aspects[k].aspect)

\* Three aspects were returned and the second dominant one has as many
\* mentions as the one left out.
C8_Witness ==
    /\ call = "analyzeAspects"
    /\ Len(returned.aspects) = 3
    /\ \E k \in 1..3 :
        /\ \A d \in 1..2 : returned.summary.dominantAspects[d].aspect
                                # returned.aspects[k].aspect
        /\ returned.aspects[k].mentions = returned.summary.dominantAspects[2].mentions

\* The later aspect of the table has more mentions and is ranked first.
C8_WitnessReordered ==
    /\ call = "analyzeAspects"
    /\ Len(returned.aspects) = 2
    /\ returned.summary.dominantAspects[1].aspect = returned.aspects[2].aspect

(***************************************************************************)
(* LogAnalyzer: analyzeLogs over the files of the log directory, and two   *)
(* calls whose steps interleave at the awaits (logAnalyzer.js:23-79)       *)
(*                                                                         *)
(* A line of a file is what JSON.parse makes of it: an object (the entry), *)
(* the literal null, or text that is not JSON.  A blank line is a line     *)
(* whose trim() is empty.                                                  *)
(***************************************************************************)

\* The longest first log file.
MaxFileLines == 2

\* The analyzeLogs calls that can be in flight together.
Runs == {1, 2}

\* logAnalyzer.js:58  JSON.parse(log): the value, or the SyntaxError thrown.
JSONParse(line) ==
    CASE line.json = "object" -> [threw |-> FALSE, isNull |-> FALSE, value |-> line.entry]
      [] line.json = "null" -> [threw |-> FALSE, isNull |-> TRUE]
      [] OTHER -> [threw |-> TRUE]

\* The value JSON.parse makes of {"toString": 1}: an object whose own
\* toString is no function, written here as its text.
ObjectWithoutToString ==
    "{toString: 1}"

\* The conversion of a value to a string in a template literal: it raises
\* a TypeError for an object that has no callable toString and whose
\* valueOf returns the object itself.
ToStringThrows(value) ==
    value = ObjectWithoutToString

\* logAnalyzer.js:83  entry.level of null raises a TypeError;
\* logAnalyzer.js:94  `${entry.path || 'unknown'}: ...` raises one, in an
\* error entry, for a path that cannot be converted to a string.
AnalysisThrows(parsed) ==
    IF parsed.isNull THEN TRUE
    ELSE /\ FieldIs(parsed.value, "level", "error")
         /\ "path" \in DOMAIN parsed.value
         /\ ToStringThrows(parsed.value.path)

\* What analyzeLogEntry has written when it throws: nothing for null
\* (logAnalyzer.js:83), the category counter of the error entry for the
\* path that cannot be converted (logAnalyzer.js:84-94).
WrittenBeforeThrow(parsed, r) ==
    IF parsed.isNull THEN r
    ELSE [r EXCEPT !.errors[ClassifyError(parsed.value.message)] = @ + 1]

\* logAnalyzer.js:56-63: one line inside try/catch; a line whose parse or
\* whose analysis throws is reported on the console and the loop goes on.
AnalyzeLine(line, r) ==
    LET parsed == JSONParse(line)
    IN  IF parsed.threw THEN r
        ELSE IF AnalysisThrows(parsed) THEN WrittenBeforeThrow(parsed, r)
             ELSE analyzeLogEntry(parsed.value, r)

\* logAnalyzer.js:54  content.split('\n').filter(line => line.trim())
NonBlank(lines) ==
    LET Kept(line) == line.json # "blank"
    IN  SelectSeq(lines, Kept)

RECURSIVE AnalyzeLinesFrom(_, _, _)
\* logAnalyzer.js:56  for (const log of logs), from the i-th line on.
AnalyzeLinesFrom(logs, i, r) ==
    IF i > Len(logs) THEN r
    ELSE AnalyzeLinesFrom(logs, i + 1, AnalyzeLine(logs[i], r))

\* logAnalyzer.js:50  files.filter(f => f.endsWith('.log'))
LogFilesOf(files) ==
    LET EndsWithLog(f) == f.ext = "log"
    IN  SelectSeq(files, EndsWithLog)

\* logAnalyzer.js:66-73: the patterns are analysed and the report is built;
\* its details are the results object itself.
BuildReport(r) ==
    LET analysedResults == analyzePatterns(r)
    IN  [summary |-> generateSummary(analysedResults),
         details |-> analysedResults,
         recommendations |-> generateRecommendations(analysedResults)]

\* The lines log files are made of: two entries, text that is not JSON,
\* the literal null, a blank line, and an error entry whose path is the
\* object {"toString": 1}.
LogLines ==
    { [json |-> "object",
       entry |-> [level |-> "error", message |-> MsgRefused, path |-> "/api/b",
                  timestamp |-> 2000, type |-> "request", duration |-> 2500]],
      [json |-> "object",
       entry |-> [level |-> "http", message |-> MsgStarted, path |-> "/api/a",
                  timestamp |-> 5000, type |-> "request", duration |-> 2001]],
      [json |-> "malformed"],
      [json |-> "null"],
      [json |-> "blank"],
      [json |-> "object",
       entry |-> [level |-> "error", message |-> MsgBoom,
                  path |-> ObjectWithoutToString]] }

LinesUpTo(n) ==
    UNION { [1..k -> LogLines] : k \in 0..n }

\* The log directory: a log file, a file that is not a log, and a second
\* log file of at most one line.
Directories ==
    { << [ext |-> "log", lines |-> first], [ext |-> "gz", lines |-> <<>>],
         [ext |-> "log", lines |-> second] >> :
        first \in LinesUpTo(MaxFileLines), second \in LinesUpTo(1) }

\* One results object kept on the analyzer and used by every call.
ResultsSlotShared(run) ==
    1

\* logAnalyzer.js:25  const results = {...}: an object of the call's own.
ResultsSlot(run) ==
    run

IdleRun ==
    [pc |-> "idle", file |-> 0, report |-> NoReport]

InitRuns ==
    /\ LogsUntouched /\ TextUntouched
    /\ FeedbackUntouched /\ CollectorUntouched /\ TxUntouched /\ RollbackUntouched
    /\ logFiles \in Directories
    /\ logRuns = [run \in Runs |-> IdleRun]
    /\ accumulators = [slot \in Runs |-> EmptyResults]

NotRuns ==
    /\ UNCHANGED logVars
    /\ UNCHANGED textVars
    /\ UNCHANGED <<feedbackVars, collectorVars, txVars, rollbackVars>>

\* logAnalyzer.js:23-49: analyzeLogs is called; it makes its results
\* object and suspends at await fs.readdir.
CallAnalyzeLogs(run) ==
    /\ logRuns[run].pc = "idle"
    /\ accumulators' = [accumulators EXCEPT ![ResultsSlot(run)] = EmptyResults]
    /\ logRuns' = [logRuns EXCEPT ![run].pc = "readdir"]
    /\ UNCHANGED logFiles
    /\ NotRuns

\* logAnalyzer.js:66-73 reached by the run: it returns its report.
Returned(run, r) ==
    /\ accumulators' = [accumulators EXCEPT ![ResultsSlot(run)] = analyzePatterns(r)]
    /\ logRuns' = [logRuns EXCEPT ![run].pc = "done", ![run].report = BuildReport(r)]

\* logAnalyzer.js:49-53: readdir resolves; with no log file the run goes
\* on to its report, else it suspends at the first await fs.readFile.
ReaddirResolves(run) ==
    /\ logRuns[run].pc = "readdir"
    /\ IF LogFilesOf(logFiles) = <<>>
       THEN Returned(run, accumulators[ResultsSlot(run)])
       ELSE /\ logRuns' = [logRuns EXCEPT ![run].pc = "readFile", ![run].file = 1]
            /\ UNCHANGED accumulators
    /\ UNCHANGED logFiles
    /\ NotRuns

\* logAnalyzer.js:53-64: readFile resolves; the lines of the file are
\* analysed, and the run suspends at the next readFile or, after the last
\* file, returns its report.
ReadFileResolves(run) ==
    /\ logRuns[run].pc = "readFile"
    /\ LET files == LogFilesOf(logFiles)
           logs == NonBlank(files[logRuns[run].file].lines)
           r == AnalyzeLinesFrom(logs, 1, accumulators[ResultsSlot(run)])
       IN  IF logRuns[run].file = Len(files)
           THEN Returned(run, r)
           ELSE /\ accumulators' = [accumulators EXCEPT ![ResultsSlot(run)] = r]
                /\ logRuns' = [logRuns EXCEPT ![run].file = @ + 1]
    /\ UNCHANGED logFiles
    /\ NotRuns

NextRuns ==
    \E run \in Runs :
        \/ CallAnalyzeLogs(run)
        \/ ReaddirResolves(run)
        \/ ReadFileResolves(run)

SpecRuns ==
    InitRuns /\ [][NextRuns]_vars

(***************************************************************************)
(* Properties of analyzeLogs over files (checked under SpecRuns)           *)
(***************************************************************************)

\* All lines of the log files of the directory, in reading order.
AllLogLines ==
    LET files == LogFilesOf(logFiles)
        Lines(i) == files[i].lines
    IN  IF files = <<>> THEN <<>>
        ELSE IF Len(files) = 1 THEN Lines(1)
             ELSE Lines(1) \o Lines(2)

\* The lines that are JSON objects, and the lines that are not JSON.
WellFormedLines ==
    LET WellFormed(line) == line.json = "object"
    IN  SelectSeq(AllLogLines, WellFormed)

MalformedLines ==
    LET Malformed(line) == line.json = "malformed"
    IN  SelectSeq(AllLogLines, Malformed)

RECURSIVE EntriesAnalysed(_, _)
\* The accumulator after the entries of the first n well-formed lines.
EntriesAnalysed(lines, n) ==
    IF n = 0 THEN EmptyResults
    ELSE analyzeLogEntry(lines[n].entry, EntriesAnalysed(lines, n - 1))

\* The report carries a tally 'unparsed' of n: at its top, in its summary
\* or in its details.
HasUnparsedTally(rep, n) ==
    \/ "unparsed" \in DOMAIN rep /\ rep.unparsed = n
    \/ "unparsed" \in DOMAIN rep.summary /\ rep.summary.unparsed = n
    \/ "unparsed" \in DOMAIN rep.details /\ rep.details.unparsed = n

\* C11: a line of a log file that fails to parse does not abort the run:
\* the report is returned and its details are those of all the well-formed
\* lines before and after it, in order; and the lines that failed to parse
\* are counted in a tally 'unparsed' of the report.
C11_BadLinesSkippedAndCounted ==
    \A run \in Runs :
        logRuns[run].pc = "done" =>
            /\ logRuns[run].report.details
                 = analyzePatterns(EntriesAnalysed(WellFormedLines, Len(WellFormedLines)))
            /\ MalformedLines # <<>> =>
                 HasUnparsedTally(logRuns[run].report, Len(MalformedLines))

\* The report of a run that has the log directory to itself.
AloneReport ==
    LET files == LogFilesOf(logFiles)
        afterFirst == AnalyzeLinesFrom(NonBlank(files[1].lines), 1, EmptyResults)
        afterSecond == AnalyzeLinesFrom(NonBlank(files[2].lines), 1, afterFirst)
    IN  BuildReport(afterSecond)

\* C17: two analyzeLogs calls whose steps interleave at the awaits do not
\* disturb each other: the report a call returns (summary, details and
\* recommendations) is the report of a call that runs alone on the same
\* log files.
C17_RunsIndependent ==
    \A run \in Runs :
        logRuns[run].pc = "done" => logRuns[run].report = AloneReport

\* A call has returned a report with an error in it while the other call
\* was suspended between the two files, the first file analysed.
C17_Witness ==
    \E run \in Runs : \E other \in Runs \ {run} :
        /\ logRuns[run].pc = "done"
        /\ logRuns[run].report.summary.totalErrors > 0
        /\ logRuns[other].pc = "readFile" /\ logRuns[other].file = 2
        /\ accumulators[ResultsSlot(other)] # EmptyResults

(***************************************************************************)
(* FeedbackAnalyzer (src/utils/sslConfig.js:318-564)                       *)
(*                                                                         *)
(* this.patterns.errors is a Map from an error type to a record {count,    *)
(* severity, lastOccurrence, endpoints}, kept as a sequence of key-value   *)
(* pairs in insertion order.  Times are epoch milliseconds.  Scores are    *)
(* kept in millionths and a priority in ten-millionths, so that            *)
(* 0.4 f + 0.4 s + 0.2 r is the integer 4 f + 4 s + 2 r.  Math.exp is      *)
(* tabulated, rounded to the millionth, at the whole numbers the model's   *)
(* times produce.                                                          *)
(***************************************************************************)

\* sslConfig.js:339  thresholds.errorFrequency
errorFrequency == 5

\* sslConfig.js:558  24 * 60 * 60 * 1000
DayMs == 86400000

\* 1.0 as a score, in millionths.
One == 1000000

\* sslConfig.js:497  0.8 and sslConfig.js:508  0.6, in ten-millionths.
ImmediateThreshold == 8000000

HighThreshold == 6000000

\* sslConfig.js:385  .slice(0, 5)
TopIssuesKept == 5

Min(a, b) ==
    IF a <= b THEN a ELSE b

\* Math.exp(x) in millionths, for the whole numbers x from -5 to 4.
MathExp(x) ==
    CASE x = -5 -> 6738
      [] x = -4 -> 18316
      [] x = -3 -> 49787
      [] x = -2 -> 135335
      [] x = -1 -> 367879
      [] x = 0 -> 1000000
      [] x = 1 -> 2718282
      [] x = 2 -> 7389056
      [] x = 3 -> 20085537
      [] x = 4 -> 54598150

\* The frequency score without its cap.
FrequencyScoreUncapped(count) ==
    (count * One) \div errorFrequency

\* sslConfig.js:556  Math.min(data.count / this.thresholds.errorFrequency, 1)
FrequencyScore(count) ==
    Min((count * One) \div errorFrequency, One)

\* SeverityScore that gives every severity 0.5.
SeverityScoreFlat(severity) ==
    One \div 2

\* sslConfig.js:557  data.severity === 'critical' ? 1 : 0.5
SeverityScore(severity) ==
    IF severity = "critical" THEN One ELSE One \div 2

\* sslConfig.js:558  Math.exp(-(Date.now() - data.lastOccurrence) / DayMs);
\* the model's times are whole days apart.
RecencyScore(now, lastOccurrence) ==
    MathExp((-(now - lastOccurrence)) \div DayMs)

\* sslConfig.js:555-561  calculatePriority(data) when Date.now() is now:
\* the sum is returned as it is.
calculatePriority(data, now) ==
    4 * FrequencyScore(data.count) + 4 * SeverityScore(data.severity)
        + 2 * RecencyScore(now, data.lastOccurrence)

\* a / b of two non-negative integers in JavaScript.
Divide(a, b) ==
    IF b # 0 THEN [kind |-> "number", num |-> a, den |-> b]
    ELSE IF a = 0 THEN [kind |-> "NaN"]
         ELSE [kind |-> "Infinity"]

\* A category is kept only above the threshold.
SurfacedAbove(count) ==
    count > errorFrequency

\* sslConfig.js:417  data.count >= this.thresholds.errorFrequency
Surfaced(count) ==
    count >= errorFrequency

\* sslConfig.js:418-425: the pattern pushed for one entry of the map.
ErrorPattern(errorType, data, errorsLength, now) ==
    [type |-> errorType,
     count |-> data.count,
     frequency |-> Divide(data.count, errorsLength),
     lastOccurrence |-> data.lastOccurrence,
     affectedEndpoints |-> data.endpoints,
     priority |-> calculatePriority(data, now)]

RECURSIVE SurfacedPatterns(_, _, _, _)
\* sslConfig.js:416-427: the loop over the map, from its k-th entry on.
SurfacedPatterns(map, k, errorsLength, now) ==
    IF k > Len(map) THEN <<>>
    ELSE (IF Surfaced(map[k].value.count)
          THEN <<ErrorPattern(map[k].key, map[k].value, errorsLength, now)>>
          ELSE <<>>)
         \o SurfacedPatterns(map, k + 1, errorsLength, now)

RECURSIVE InsertByPriority(_, _)
\* Pattern p put into the sequence s in descending order of priority,
\* behind the patterns of the same priority.
InsertByPriority(s, p) ==
    IF s = <<>> THEN <<p>>
    ELSE IF p.priority > Head(s).priority THEN <<p>> \o s
         ELSE <<Head(s)>> \o InsertByPriority(Tail(s), p)

RECURSIVE SortByPriorityDesc(_)
\* sslConfig.js:429  patterns.sort((a, b) => b.priority - a.priority): the
\* sort is stable.
SortByPriorityDesc(patterns) ==
    IF patterns = <<>> THEN <<>>
    ELSE InsertByPriority(SortByPriorityDesc(SubSeq(patterns, 1, Len(patterns) - 1)),
                          patterns[Len(patterns)])

\* sslConfig.js:413-430  analyzeErrorPatterns()
analyzeErrorPatterns(map, errorsLength, now) ==
    SortByPriorityDesc(SurfacedPatterns(map, 1, errorsLength, now))

\* sslConfig.js:542-552  getErrorRecommendation(pattern)
getErrorRecommendation(pattern) ==
    CASE pattern.type = "database" -> "Implement connection pooling and retry mechanisms"
      [] pattern.type = "timeout" ->
            "Review and adjust timeout settings, implement circuit breakers"
      [] pattern.type = "validation" -> "Enhance input validation and sanitization"
      [] pattern.type = "authentication" ->
            "Review and strengthen authentication mechanisms"
      [] pattern.type = "rate_limit" ->
            "Adjust rate limiting thresholds and implement caching"
      [] OTHER -> "Investigate and implement appropriate error handling"

\* The tiers with the immediate tier starting above 0.8.
TierOfStrict(priority) ==
    IF priority > ImmediateThreshold THEN "immediate"
    ELSE IF priority >= HighThreshold THEN "high"
         ELSE "none"

\* sslConfig.js:497, 508: the tier a pattern's recommendation is pushed to;
\* below 0.6 nothing is pushed.
TierOf(priority) ==
    IF priority >= ImmediateThreshold THEN "immediate"
    ELSE IF priority >= HighThreshold THEN "high"
         ELSE "none"

\* sslConfig.js:498-506
ImmediateRecommendation(pattern) ==
    [type |-> "error",
     issue |-> "Frequent error: " \o pattern.type,
     recommendation |-> getErrorRecommendation(pattern),
     priority |-> "immediate",
     metrics |-> [frequency |-> pattern.frequency, occurrences |-> pattern.count]]

\* sslConfig.js:509-514
HighRecommendation(pattern) ==
    [type |-> "error",
     issue |-> "Recurring error: " \o pattern.type,
     recommendation |-> getErrorRecommendation(pattern),
     priority |-> "high"]

RECURSIVE generateErrorRecommendations(_, _, _)
\* sslConfig.js:490-514: errorPatterns.forEach, from the k-th pattern on.
generateErrorRecommendations(recommendations, patterns, k) ==
    IF k > Len(patterns) THEN recommendations
    ELSE LET tier == TierOf(patterns[k].priority)
             pushed ==
                 CASE tier = "immediate" ->
                        [recommendations EXCEPT
                            !.immediate = Append(@, ImmediateRecommendation(patterns[k]))]
                   [] tier = "high" ->
                        [recommendations EXCEPT
                            !.high = Append(@, HighRecommendation(patterns[k]))]
                   [] OTHER -> recommendations
         IN  generateErrorRecommendations(pushed, patterns, k + 1)

\* sslConfig.js:466-487  generateRecommendations(): the four tiers, filled
\* by the error rule; the slow-request, complaint and feature-request maps
\* are empty as constructed, so that the other rules have nothing to add.
generateFeedbackRecommendations(map, errorsLength, now) ==
    generateErrorRecommendations(
        [immediate |-> <<>>, high |-> <<>>, medium |-> <<>>, low |-> <<>>],
        analyzeErrorPatterns(map, errorsLength, now), 1)

\* sslConfig.js:527-539  analyzeRecentTrends(): the feedback of the last
\* day is counted.  (sentimentTrend, topComplaints and emergingIssues come
\* from helpers the class does not define; they are left out.)
analyzeRecentTrends(data, now) ==
    LET Recent(f) == now - f.timestamp < DayMs
    IN  [dailyFeedbackCount |-> Len(SelectSeq(data.userFeedback, Recent))]

RECURSIVE InsertIssueByCount(_, _)
\* Map entry e put into the sequence s in descending order of count,
\* behind the entries of the same count.
InsertIssueByCount(s, e) ==
    IF s = <<>> THEN <<e>>
    ELSE IF e.value.count > Head(s).value.count THEN <<e>> \o s
         ELSE <<Head(s)>> \o InsertIssueByCount(Tail(s), e)

RECURSIVE SortIssuesByCountDesc(_)
\* sslConfig.js:384  .sort((a, b) => b[1].count - a[1].count)
SortIssuesByCountDesc(map) ==
    IF map = <<>> THEN <<>>
    ELSE InsertIssueByCount(SortIssuesByCountDesc(SubSeq(map, 1, Len(map) - 1)),
                            map[Len(map)])

\* sslConfig.js:383-390  the top issues of the summary.
TopIssues(map) ==
    LET sorted == SortIssuesByCountDesc(map)
        top == SubSeq(sorted, 1, Min(TopIssuesKept, Len(sorted)))
    IN  [k \in 1..Len(top) |->
            [error |-> top[k].key, count |-> top[k].value.count,
             lastOccurrence |-> top[k].value.lastOccurrence]]

\* sslConfig.js:371-400  generateSummary()
generateFeedbackSummary(data, map, now) ==
    LET Critical(error) == error.severity = "critical"
    IN  [totalFeedback |-> Len(data.userFeedback),
         totalErrors |-> Len(data.errors),
         performanceIssues |-> Len(data.performance),
         criticalIssues |-> Len(SelectSeq(data.errors, Critical)),
         topIssues |-> TopIssues(map),
         recentTrends |-> analyzeRecentTrends(data, now)]

\* sslConfig.js:403-410  identifyPatterns(): the slow-request, complaint
\* and feature-request maps are empty as constructed.
identifyPatterns(data, map, now) ==
    [errorPatterns |-> analyzeErrorPatterns(map, Len(data.errors), now),
     performancePatterns |-> <<>>,
     userComplaintPatterns |-> <<>>,
     featureRequestPatterns |-> <<>>]

\* a / b, and 0 when b is 0.
GuardedRate(a, b) ==
    IF b = 0 THEN [kind |-> "number", num |-> 0, den |-> 1] ELSE Divide(a, b)

\* sslConfig.js:517-524  calculateMetrics(): the error rate and the rate of
\* critical issues over the feedback received, each 0 without feedback.
calculateMetrics(data) ==
    LET Critical(error) == error.severity = "critical"
    IN  [errorRate |-> GuardedRate(Len(data.errors), Len(data.userFeedback)),
         criticalIssueRate |->
            GuardedRate(Len(SelectSeq(data.errors, Critical)), Len(data.userFeedback))]

\* sslConfig.js:347-368  the report analyzeAllFeedback() builds when
\* Date.now() is now.
FeedbackReport(data, map, now) ==
    [timestamp |-> now,
     summary |-> generateFeedbackSummary(data, map, now),
     patterns |-> identifyPatterns(data, map, now),
     recommendations |-> generateFeedbackRecommendations(map, Len(data.errors), now),
     metrics |-> calculateMetrics(data)]

(***************************************************************************)
(* FeedbackAnalyzer: calls of calculatePriority, and calls of              *)
(* analyzeAllFeedback on error records that stay the same while the clock  *)
(* goes on                                                                 *)
(***************************************************************************)

\* The largest count of a record handed to calculatePriority.
MaxCount == 7

\* The calculatePriority calls of one behaviour.
MaxPriorityCalls == 2

\* The most entries of this.patterns.errors.
MaxCategories == 2

\* The clock stops after this many days.
MaxClockDays == 3

Severities ==
    {"critical", "minor"}

\* Records for calculatePriority: every count from 0 on, both severities,
\* last occurrences one day before the call, at the call and one day after.
PriorityRecords ==
    [count : 0..MaxCount, severity : Severities,
     lastOccurrence : {0, DayMs, 2 * DayMs}, endpoints : {<<"/api/a">>}]

InitPriority ==
    /\ LogsUntouched /\ TextUntouched
    /\ RunsUntouched /\ CollectorUntouched /\ TxUntouched /\ RollbackUntouched
    /\ feedbackData = [errors |-> <<>>, userFeedback |-> <<>>,
                       performance |-> <<>>, suggestions |-> <<>>]
    /\ patternsErrors = <<>>
    /\ clock = DayMs
    /\ priorityCalls = <<>>
    /\ feedbackReports = <<>>

NotFeedback ==
    /\ UNCHANGED logVars
    /\ UNCHANGED textVars
    /\ UNCHANGED <<runVars, collectorVars, txVars, rollbackVars>>

\* sslConfig.js:555-561: calculatePriority(data) is called and returns.
CalculatePriority(data) ==
    /\ Len(priorityCalls) < MaxPriorityCalls
    /\ priorityCalls' = Append(priorityCalls,
            [data |-> data, now |-> clock, value |-> calculatePriority(data, clock)])
    /\ UNCHANGED <<feedbackData, patternsErrors, clock, feedbackReports>>
    /\ NotFeedback

NextPriority ==
    \E data \in PriorityRecords : CalculatePriority(data)

SpecPriority ==
    InitPriority /\ [][NextPriority]_vars

\* The error types of the map, in insertion order; the second one has no
\* entry in the table of getErrorRecommendation.
ErrorTypes ==
    <<"database", "disk_full", "timeout">>

\* Records of the map: counts around the threshold, both severities, last
\* occurrences at the epoch, at the first call's time and a day after it.
ErrorRecords ==
    [count : {errorFrequency - 1, errorFrequency, errorFrequency + 1},
     severity : Severities,
     lastOccurrence : {0, DayMs, 2 * DayMs}, endpoints : {<<"/api/a">>}]

ErrorMaps ==
    { [k \in 1..n |-> [key |-> ErrorTypes[k], value |-> records[k]]] :
        records \in [1..MaxCategories -> ErrorRecords], n \in 0..MaxCategories }

RECURSIVE ErrorsOf(_, _)
\* this.feedbackData.errors for the map: one error per occurrence counted,
\* with the severity of its category; from the k-th entry of the map on.
ErrorsOf(map, k) ==
    IF k > Len(map) THEN <<>>
    ELSE [i \in 1..map[k].value.count |->
            [type |-> map[k].key, severity |-> map[k].value.severity]]
         \o ErrorsOf(map, k + 1)

\* this.feedbackData.userFeedback: none, or one entry a day.
UserFeedbacks ==
    { <<>>, <<[timestamp |-> 0], [timestamp |-> DayMs]>> }

InitFeedback ==
    /\ LogsUntouched /\ TextUntouched
    /\ RunsUntouched /\ CollectorUntouched /\ TxUntouched /\ RollbackUntouched
    /\ patternsErrors \in ErrorMaps
    /\ \E userFeedback \in UserFeedbacks :
          feedbackData = [errors |-> ErrorsOf(patternsErrors, 1),
                          userFeedback |-> userFeedback,
                          performance |-> <<>>, suggestions |-> <<>>]
    /\ clock = DayMs
    /\ priorityCalls = <<>>
    /\ feedbackReports = <<>>

\* Time passes: Date.now() is a day later.
Tick ==
    /\ clock < MaxClockDays * DayMs
    /\ clock' = clock + DayMs
    /\ UNCHANGED <<feedbackData, patternsErrors, priorityCalls, feedbackReports>>
    /\ NotFeedback

\* sslConfig.js:347-368: analyzeAllFeedback() is called and returns its
\* report; the data are left as they are.
AnalyzeAllFeedback ==
    /\ Len(feedbackReports) < 2
    /\ feedbackReports' =
          Append(feedbackReports, FeedbackReport(feedbackData, patternsErrors, clock))
    /\ UNCHANGED <<feedbackData, patternsErrors, clock, priorityCalls>>
    /\ NotFeedback

NextFeedback ==
    \/ Tick
    \/ AnalyzeAllFeedback

SpecFeedback ==
    InitFeedback /\ [][NextFeedback]_vars

(***************************************************************************)
(* Properties of the feedback analysis                                     *)
(***************************************************************************)

\* The map entries whose count is at least 5.
FrequentEntries ==
    { k \in 1..Len(patternsErrors) : patternsErrors[k].value.count >= 5 }

\* C12: analyzeErrorPatterns returns an error category if and only if its
\* count is at least 5, each such category once, and the returned
\* categories are in non-increasing order of priority.
C12_SurfacedIffFrequent ==
    \A r \in 1..Len(feedbackReports) :
        LET returnedPatterns == feedbackReports[r].patterns.errorPatterns
        IN  /\ \A k \in 1..Len(patternsErrors) :
                  (k \in FrequentEntries)
                    <=> (\E i \in 1..Len(returnedPatterns) :
                            /\ returnedPatterns[i].type = patternsErrors[k].key
                            /\ returnedPatterns[i].count = patternsErrors[k].value.count)
            /\ Len(returnedPatterns) = Cardinality(FrequentEntries)
            /\ \A i \in 1..(Len(returnedPatterns) - 1) :
                  returnedPatterns[i].priority >= returnedPatterns[i + 1].priority

\* Two categories were returned, the later one of the map first because
\* its priority is higher.
C12_Witness ==
    \E r \in 1..Len(feedbackReports) :
        LET returnedPatterns == feedbackReports[r].patterns.errorPatterns
        IN  /\ Len(returnedPatterns) = 2
            /\ returnedPatterns[1].type = patternsErrors[2].key
            /\ returnedPatterns[1].priority > returnedPatterns[2].priority

\* v kept within lo..hi.
Clamp(v, lo, hi) ==
    IF v < lo THEN lo ELSE IF v > hi THEN hi ELSE v

\* 0.4 min(count / 5, 1) + 0.4 (1 if critical, else 0.5)
\*   + 0.2 exp(-(now - lastOccurrence) / 86400000), in ten-millionths.
WeightedSum(data, now) ==
    4 * (IF data.count >= 5 THEN 1000000 ELSE data.count * 200000)
    + 4 * (IF data.severity = "critical" THEN 1000000 ELSE 500000)
    + 2 * MathExp((data.lastOccurrence - now) \div 86400000)

\* C13: for every record, whatever its count, its severity and its last
\* occurrence (one later than the current time included), calculatePriority
\* returns 0.4 frequencyScore + 0.4 severityScore + 0.2 recencyScore
\* clamped to [0, 1].
C13_PriorityIsClampedSum ==
    \A c \in 1..Len(priorityCalls) :
        priorityCalls[c].value
            = Clamp(WeightedSum(priorityCalls[c].data, priorityCalls[c].now), 0, 10000000)

\* C14: with severity and recency the same, the priority of a record with
\* the smaller count is at most the priority of the record with the larger
\* count, and the two are equal when the smaller count is 5 or more.
C14_MonotoneInCount ==
    \A c \in 1..Len(priorityCalls) : \A d \in 1..Len(priorityCalls) :
        LET lower == priorityCalls[c]
            higher == priorityCalls[d]
        IN  (/\ lower.data.severity = higher.data.severity
             /\ lower.now - lower.data.lastOccurrence
                  = higher.now - higher.data.lastOccurrence
             /\ lower.data.count <= higher.data.count)
            => /\ lower.value <= higher.value
               /\ lower.data.count >= 5 => lower.value = higher.value

\* calculatePriority was called for two records that differ in their count
\* only, the counts being 5 and more than 5.
C14_Witness ==
    /\ Len(priorityCalls) = 2
    /\ priorityCalls[1].data.count = 5
    /\ priorityCalls[2].data.count > 5
    /\ priorityCalls[1].data.severity = priorityCalls[2].data.severity
    /\ priorityCalls[1].data.lastOccurrence = priorityCalls[2].data.lastOccurrence
    /\ priorityCalls[1].value = priorityCalls[2].value

\* The recommendation is the one made for the error type.
IsAbout(recommendation, type) ==
    recommendation.issue \in {"Frequent error: " \o type, "Recurring error: " \o type}

\* The places of the tier's recommendations that are about the type.
PlacesIn(recommendations, tier, type) ==
    { i \in 1..Len(recommendations[tier]) : IsAbout(recommendations[tier][i], type) }

\* C15: every error category analyzeErrorPatterns returned has exactly one
\* recommendation in the report, and it is in the immediate tier when the
\* priority is at least 0.8, in the high tier when the priority is at least
\* 0.6 and below 0.8, and in the medium or the low tier otherwise.
C15_OneRecommendationPerCategory ==
    \A r \in 1..Len(feedbackReports) :
        LET returnedPatterns == feedbackReports[r].patterns.errorPatterns
            recommendations == feedbackReports[r].recommendations
            Count(tier, type) == Cardinality(PlacesIn(recommendations, tier, type))
        IN  \A i \in 1..Len(returnedPatterns) :
                LET type == returnedPatterns[i].type
                    priority == returnedPatterns[i].priority
                IN  /\ Count("immediate", type) + Count("high", type)
                         + Count("medium", type) + Count("low", type) = 1
                    /\ priority >= 8000000 => Count("immediate", type) = 1
                    /\ priority >= 6000000 /\ priority < 8000000 => Count("high", type) = 1
                    /\ priority < 6000000 => Count("medium", type) + Count("low", type) = 1

\* A report with a category of priority exactly 0.8 in the immediate tier
\* and a category of a priority below 0.8 in the high tier.
C15_Witness ==
    \E r \in 1..Len(feedbackReports) :
        LET returnedPatterns == feedbackReports[r].patterns.errorPatterns
            recommendations == feedbackReports[r].recommendations
        IN  /\ Len(returnedPatterns) = 2
            /\ returnedPatterns[1].priority = 8000000
            /\ returnedPatterns[2].priority < 8000000
            /\ PlacesIn(recommendations, "immediate", returnedPatterns[1].type) # {}
            /\ PlacesIn(recommendations, "high", returnedPatterns[2].type) # {}

MaxFeedback == 3

\* feedbackCollector.js:35  thresholds.criticalIssues
CriticalIssuesThreshold == 5

\* feedbackCollector.js:36  thresholds.errorRate, 0.05, in hundredths
ErrorRateThresholdPercent == 5

\* The object this.metrics, as a reference.
MetricsObject ==
    "this.metrics"

\* What a reader finds in v now: the live counters behind the reference.
ValueOf(v) ==
    IF v = MetricsObject THEN metrics ELSE v

\* feedbackCollector.js:137-151  checkAlertThresholds(): when a threshold
\* is reached it calls this.triggerThresholdAlert, which the class does not
\* define, so that a TypeError is raised.
CheckAlertThresholdsThrows(m) ==
    \/ m.criticalIssues >= CriticalIssuesThreshold
    \/ m.bugReports * 100 >= ErrorRateThresholdPercent * m.totalFeedback

\* feedbackCollector.js:83-95: the counters after the total and the
\* counter of the feedback's type are incremented.
CountedByType(m, feedback) ==
    LET counted == [m EXCEPT !.totalFeedback = @ + 1]
    IN  CASE feedback.type = "bug" -> [counted EXCEPT !.bugReports = @ + 1]
          [] feedback.type = "feature" -> [counted EXCEPT !.featureRequests = @ + 1]
          [] feedback.type = "performance" -> [counted EXCEPT !.performanceIssues = @ + 1]
          [] OTHER -> counted

\* feedbackCollector.js:82-101  updateMetrics(feedback): the counters it
\* leaves, and whether it raised an error.
updateMetrics(m, feedback) ==
    LET counted == CountedByType(m, feedback)
    IN  IF feedback.severity = "critical"
        THEN LET critical == [counted EXCEPT !.criticalIssues = @ + 1]
             IN  [metrics |-> critical, threw |-> CheckAlertThresholdsThrows(critical)]
        ELSE [metrics |-> counted, threw |-> FALSE]

\* feedbackCollector.js:207-214  getStatistics(): metrics is the object
\* this.metrics itself; the rates are plain divisions.
getStatistics(m, now) ==
    [metrics |-> MetricsObject,
     errorRate |-> Divide(m.bugReports, m.totalFeedback),
     criticalRate |-> Divide(m.criticalIssues, m.totalFeedback),
     lastUpdated |-> now]

\* feedbackCollector.js:217-221  resetMetrics(): every counter is set to 0.
resetMetrics(m) ==
    [key \in DOMAIN m |-> 0]

Feedbacks ==
    [type : {"bug", "feature", "performance", "security"},
     severity : {"critical", "minor"}]

InitCollector ==
    /\ LogsUntouched /\ TextUntouched
    /\ RunsUntouched /\ FeedbackUntouched /\ TxUntouched /\ RollbackUntouched
    /\ CollectorUntouched

NotCollector ==
    /\ UNCHANGED logVars
    /\ UNCHANGED textVars
    /\ UNCHANGED <<runVars, feedbackVars, txVars, rollbackVars>>

\* feedbackCollector.js:42-79  collectFeedback(feedback): the metrics are
\* updated; an error of updateMetrics is logged and thrown on, otherwise
\* the feedback is stored and the call succeeds.
CollectFeedback(feedback) ==
    /\ metrics.totalFeedback < MaxFeedback
    /\ LET updated == updateMetrics(metrics, feedback)
       IN  /\ metrics' = updated.metrics
           /\ feedbackOutcome' = IF updated.threw THEN "error" ELSE "success"
           /\ succeeded' = IF updated.threw THEN succeeded ELSE succeeded + 1
    /\ UNCHANGED statistics
    /\ NotCollector

\* feedbackCollector.js:207-214: getStatistics() is called; the reader
\* keeps what it returned, with the counters as they were at that time.
GetStatistics ==
    /\ statistics' =
          << [returned |-> getStatistics(metrics, clock), countersThen |-> metrics] >>
    /\ UNCHANGED <<metrics, feedbackOutcome, succeeded>>
    /\ NotCollector

\* feedbackCollector.js:217-221: resetMetrics() is called.
ResetMetrics ==
    /\ metrics' = resetMetrics(metrics)
    /\ succeeded' = 0
    /\ UNCHANGED <<feedbackOutcome, statistics>>
    /\ NotCollector

NextCollector ==
    \/ \E feedback \in Feedbacks : CollectFeedback(feedback)
    \/ GetStatistics
    \/ ResetMetrics

SpecCollector ==
    InitCollector /\ [][NextCollector]_vars

(***************************************************************************)
(* Properties of the feedback counters (checked under SpecCollector)       *)
(***************************************************************************)

\* The rate is the number 0.
IsZeroRate(rate) ==
    rate.kind = "number" /\ rate.num = 0

\* C18: with no feedback entry, at the start or after resetMetrics, the
\* error rate and the critical-issue rate reported are 0, not NaN and not
\* Infinity, and the recommendations of the feedback report are empty.
C18_ZeroFeedbackZeroRates ==
    /\ \A s \in 1..Len(statistics) :
          statistics[s].countersThen.totalFeedback = 0 =>
              /\ IsZeroRate(statistics[s].returned.errorRate)
              /\ IsZeroRate(statistics[s].returned.criticalRate)
    /\ LET emptyData == [errors |-> <<>>, userFeedback |-> <<>>,
                         performance |-> <<>>, suggestions |-> <<>>]
           emptyReport == FeedbackReport(emptyData, <<>>, clock)
       IN  /\ IsZeroRate(emptyReport.metrics.errorRate)
           /\ IsZeroRate(emptyReport.metrics.criticalIssueRate)
           /\ \A tier \in DOMAIN emptyReport.recommendations :
                  emptyReport.recommendations[tier] = <<>>

\* C19: the metrics a getStatistics call returned stay as they were at the
\* time of the call, whatever collectFeedback and resetMetrics calls
\* follow.
C19_StatisticsAreSnapshots ==
    \A s \in 1..Len(statistics) :
        ValueOf(statistics[s].returned.metrics) = statistics[s].countersThen

(***************************************************************************)
(* executeTransaction (src/unnamed/part_011:132-146)                       *)
(*                                                                         *)
(* tx is the sequence of the executeTransaction calls made, the last one   *)
(* possibly in flight.  A call is at one of its awaits (pc) or done; its  *)
(* trace lists, in order, the statements it issued, the start of the       *)
(* callback and the release of the client.  Every awaited promise          *)
(* (pool.connect, client.query, the callback) may resolve or reject.       *)
(***************************************************************************)

\* The executeTransaction calls of one behaviour.
MaxTransactions == 2

\* What the callback may resolve with, and what it may reject with.
CallbackResults ==
    {"row", "none"}

CallbackErrors ==
    {"Transaction error"}

\* What a rejected client.query or pool.connect rejects with.
QueryError(statement) ==
    statement \o " failed"

\* part_011:133  const client = await pool.connect()
NewCall ==
    [fn |-> "executeTransaction", pc |-> "connect", trace |-> <<>>, callback |-> "not run", result |-> "none",
     caught |-> "none", outcome |-> [kind |-> "pending"]]

\* The call in flight, if there is one.
Current ==
    tx[Len(tx)]

InFlight(await) ==
    tx # <<>> /\ Current.pc = await

\* The last call of tx is replaced by next.
Becomes(next) ==
    tx' = [tx EXCEPT ![Len(tx)] = next]

\* part_011:141-142, 144: the catch block is entered with error; ROLLBACK
\* is issued and awaited.
Catch(t, error) ==
    [t EXCEPT !.pc = "ROLLBACK", !.caught = error,
              !.trace = Append(t.trace, "ROLLBACK")]

\* A finally block that does not release the client.
FinallyWithoutRelease(t, outcome) ==
    [t EXCEPT !.pc = "done", !.outcome = outcome]

\* part_011:126-128, 143-145: the finally block releases the client and the
\* call ends with outcome.
Finally(t, outcome) ==
    [t EXCEPT !.pc = "done", !.trace = Append(t.trace, "release"),
              !.outcome = outcome]

InitTx ==
    /\ LogsUntouched /\ TextUntouched
    /\ RunsUntouched /\ FeedbackUntouched /\ CollectorUntouched
    /\ TxUntouched /\ RollbackUntouched

NotTx ==
    /\ UNCHANGED logVars
    /\ UNCHANGED textVars
    /\ UNCHANGED <<runVars, feedbackVars, collectorVars, rollbackVars>>

\* part_011:132-133: executeTransaction(callback) is called.
CallExecuteTransaction ==
    /\ Len(tx) < MaxTransactions
    /\ IF tx = <<>> THEN TRUE ELSE Current.pc = "done"
    /\ tx' = Append(tx, NewCall)
    /\ NotTx

\* part_011:133-136: a client is acquired and BEGIN is issued.
ConnectResolves ==
    /\ InFlight("connect")
    /\ Becomes([Current EXCEPT !.pc = "BEGIN", !.trace = Append(@, "BEGIN")])
    /\ NotTx

\* part_011:133: no client; the rejection leaves the function, outside try.
ConnectRejects ==
    /\ InFlight("connect")
    /\ Becomes([Current EXCEPT !.pc = "done",
                    !.outcome = [kind |-> "throw", error |-> QueryError("connect")]])
    /\ NotTx

\* part_011:136-137: BEGIN has resolved; the callback is started.
BeginResolves ==
    /\ InFlight("BEGIN")
    /\ Becomes([Current EXCEPT !.pc = "callback", !.callback = "running",
                    !.trace = Append(@, "callback")])
    /\ NotTx

BeginRejects ==
    /\ InFlight("BEGIN")
    /\ Becomes(Catch(Current, QueryError("BEGIN")))
    /\ NotTx

\* part_011:137-138: the callback has resolved; COMMIT is issued.
CallbackResolves(result) ==
    /\ InFlight("callback")
    /\ Becomes([Current EXCEPT !.pc = "COMMIT", !.callback = "resolved",
                    !.result = result, !.trace = Append(@, "COMMIT")])
    /\ NotTx

\* part_011:137, 140: the callback has failed.
CallbackRejects(error) ==
    /\ InFlight("callback")
    /\ Becomes(Catch([Current EXCEPT !.callback = "rejected"], error))
    /\ NotTx

\* part_011:138-139, 143-145: COMMIT has resolved; the result is returned.
CommitResolves ==
    /\ InFlight("COMMIT")
    /\ Becomes(Finally(Current, [kind |-> "return", value |-> Current.result]))
    /\ NotTx

CommitRejects ==
    /\ InFlight("COMMIT")
    /\ Becomes(Catch(Current, QueryError("COMMIT")))
    /\ NotTx

\* part_011:141-145: ROLLBACK has resolved; the caught error is thrown.
RollbackResolves ==
    /\ InFlight("ROLLBACK")
    /\ Becomes(Finally(Current, [kind |-> "throw", error |-> Current.caught]))
    /\ NotTx

\* part_011:141, 143-145: the rejection of ROLLBACK leaves the catch block
\* in place of the caught error.
RollbackRejects ==
    /\ InFlight("ROLLBACK")
    /\ Becomes(Finally(Current, [kind |-> "throw", error |-> QueryError("ROLLBACK")]))
    /\ NotTx

\* part_011:122-123  const client = await pool.connect() of executeQuery
NewQuery ==
    [fn |-> "executeQuery", pc |-> "connect for query", trace |-> <<>>, callback |-> "not run",
     result |-> "none", caught |-> "none", outcome |-> [kind |-> "pending"]]

\* part_011:122-123: executeQuery(text, params) is called.
CallExecuteQuery ==
    /\ Len(tx) < MaxTransactions
    /\ IF tx = <<>> THEN TRUE ELSE Current.pc = "done"
    /\ tx' = Append(tx, NewQuery)
    /\ NotTx

\* part_011:123-125: a client is acquired and the statement is issued.
QueryConnectResolves ==
    /\ InFlight("connect for query")
    /\ Becomes([Current EXCEPT !.pc = "query", !.trace = Append(@, "query")])
    /\ NotTx

\* part_011:123: no client; the rejection leaves the function, outside try.
QueryConnectRejects ==
    /\ InFlight("connect for query")
    /\ Becomes([Current EXCEPT !.pc = "done",
                    !.outcome = [kind |-> "throw", error |-> QueryError("connect")]])
    /\ NotTx

\* part_011:125-128: the statement has resolved; its rows are returned.
QueryResolves ==
    /\ InFlight("query")
    /\ Becomes(Finally(Current, [kind |-> "return", value |-> "rows"]))
    /\ NotTx

\* part_011:125-128: the statement has failed; its error is thrown on.
QueryRejects ==
    /\ InFlight("query")
    /\ Becomes(Finally(Current, [kind |-> "throw", error |-> QueryError("query")]))
    /\ NotTx

NextTx ==
    \/ CallExecuteQuery
    \/ QueryConnectResolves
    \/ QueryConnectRejects
    \/ QueryResolves
    \/ QueryRejects
    \/ CallExecuteTransaction
    \/ ConnectResolves
    \/ ConnectRejects
    \/ BeginResolves
    \/ BeginRejects
    \/ \E result \in CallbackResults : CallbackResolves(result)
    \/ \E error \in CallbackErrors : CallbackRejects(error)
    \/ CommitResolves
    \/ CommitRejects
    \/ RollbackResolves
    \/ RollbackRejects

SpecTx ==
    InitTx /\ [][NextTx]_vars

(***************************************************************************)
(* Properties of executeTransaction (checked under SpecTx)                 *)
(***************************************************************************)

\* The places of the event in the trace of a call.
PlacesOf(t, event) ==
    { i \in 1..Len(t.trace) : t.trace[i] = event }

\* Every occurrence of the first event lies before every occurrence of the
\* second one, and the first one occurs if the second one does.
Precedes(t, first, second) ==
    /\ PlacesOf(t, second) # {} => PlacesOf(t, first) # {}
    /\ \A i \in PlacesOf(t, first) : \A j \in PlacesOf(t, second) : i < j

\* C20: in every executeTransaction call BEGIN is issued before the
\* callback runs and COMMIT is issued only after the callback has resolved;
\* a call whose callback resolved and whose COMMIT went through returns
\* the callback's result; a call whose callback failed issues ROLLBACK,
\* never COMMIT, and throws the callback's error to its caller.
C20_TransactionOrder ==
    \A c \in 1..Len(tx) :
        LET t == tx[c]
        IN  /\ Precedes(t, "BEGIN", "callback")
            /\ Precedes(t, "callback", "COMMIT")
            /\ PlacesOf(t, "COMMIT") # {} => t.callback = "resolved"
            /\ (t.pc = "done" /\ t.callback = "resolved" /\ PlacesOf(t, "ROLLBACK") = {})
                  => t.outcome = [kind |-> "return", value |-> t.result]
            /\ t.callback = "rejected" =>
                  /\ PlacesOf(t, "ROLLBACK") # {}
                  /\ PlacesOf(t, "COMMIT") = {}
                  /\ t.pc = "done" => t.outcome = [kind |-> "throw", error |-> t.caught]

\* The statements a call can issue on its client.
Statements ==
    {"query", "BEGIN", "COMMIT", "ROLLBACK"}

\* C21: a call of executeQuery or executeTransaction that has acquired a
\* client releases it exactly once, as the last thing it does with it,
\* after every statement it issued, whichever of its statements or its
\* callback failed; a call still waiting has not released its client, and
\* a call that got no client releases none.
C21_ClientReleasedOnce ==
    \A c \in 1..Len(tx) :
        LET t == tx[c]
            acquired == t.pc \notin {"connect", "connect for query"}
                        /\ ~(t.pc = "done" /\ t.trace = <<>>)
        IN  /\ (t.pc = "done" /\ acquired) =>
                  /\ Cardinality(PlacesOf(t, "release")) = 1
                  /\ t.trace[Len(t.trace)] = "release"
                  /\ \E i \in 1..Len(t.trace) : t.trace[i] \in Statements
            /\ t.pc # "done" => PlacesOf(t, "release") = {}
            /\ ~acquired => PlacesOf(t, "release") = {}

\* A transaction whose callback failed and whose ROLLBACK failed too has
\* ended, its client released after the ROLLBACK; and a query that failed
\* has ended, its client released.
C21_Witness ==
    /\ Len(tx) = 2
    /\ tx[1].trace = <<"BEGIN", "callback", "ROLLBACK", "release">>
    /\ tx[1].outcome = [kind |-> "throw", error |-> QueryError("ROLLBACK")]
    /\ tx[2].trace = <<"query", "release">>
    /\ tx[2].outcome.kind = "throw"


(***************************************************************************)
(* analyzeAspects: which sentences an aspect records                       *)
(***************************************************************************)

\* The sentences one of whose tokens is a keyword of the aspect, in the
\* order of the text.
SentencesOfAspect(sentences, aspect) ==
    LET Matches(sentence) == TokensOf(sentence) \cap KeywordsOf(aspect) # {}
    IN  SelectSeq(sentences, Matches)

\* A keyword of the aspect is spelled inside a longer word of the sentence.
KeywordInsideWord(sentence, aspect) ==
    \E run \in WordRuns(sentence) : \E i, j \in run[1]..run[2] :
        /\ i <= j
        /\ <<i, j>> # run
        /\ Join(SubSeq(sentence, i, j)) \in KeywordsOf(aspect)

\* C22: a sentence is recorded under an aspect if and only if one of its
\* tokens equals one of the aspect's keywords (a keyword inside a longer
\* word does not match), and this is decided for each aspect on its own:
\* the sentences an aspect returns are exactly the sentences with such a
\* token, whatever the other aspects matched.
C22_TokenEqualsKeyword ==
    call = "analyzeAspects" =>
        LET sentences == Sentences(text)
        IN  \A aspect \in AspectNames :
                LET matching == SentencesOfAspect(sentences, aspect)
                IN  /\ HasAspect(aspect) <=> matching # <<>>
                    /\ HasAspect(aspect) =>
                            AspectResult(aspect).relevantText = matching

\* One sentence is recorded under two aspects, and it holds a word that
\* contains a keyword of a third aspect, under which it is not recorded.
C22_Witness ==
    /\ call = "analyzeAspects"
    /\ \E s \in 1..Len(Sentences(text)) :
        LET sentence == Sentences(text)[s]
            Records(aspect) ==
                /\ HasAspect(aspect)
                /\ \E k \in 1..Len(AspectResult(aspect).relevantText) :
                        AspectResult(aspect).relevantText[k] = sentence
        IN  /\ Cardinality({aspect \in AspectNames : Records(aspect)}) >= 2
            /\ \E aspect \in AspectNames :
                    /\ KeywordInsideWord(sentence, aspect)
                    /\ ~Records(aspect)


\* No sentence of the text holds a token that is a keyword of an aspect.
NoSentenceMatches ==
    \A aspect \in AspectNames : SentencesOfAspect(Sentences(text), aspect) = <<>>

\* C23: for a text in which no sentence matches any aspect analyzeAspects
\* returns an empty aspects map and a null summary, and no summary holds
\* an overall score that is not a number between -1 and 1 (no NaN, no
\* Infinity from a division by zero aspects).
C23_NoAspectNullSummary ==
    call = "analyzeAspects" =>
        /\ NoSentenceMatches =>
                returned = [aspects |-> <<>>, summary |-> [null |-> TRUE]]
        /\ "null" \notin DOMAIN returned.summary =>
                /\ Len(returned.aspects) > 0
                /\ returned.summary.overallScore \in -100..100

\* A text with a sentence, none of whose words is a keyword of an aspect,
\* was analysed.
C23_Witness ==
    /\ call = "analyzeAspects"
    /\ Len(Sentences(text)) > 0
    /\ NoSentenceMatches
    /\ returned.summary = [null |-> TRUE]


(***************************************************************************)
(* analyzeLogEntry: the performance lists                                  *)
(***************************************************************************)

\* Has the entry the field?
Carries(entry, field) ==
    field \in DOMAIN entry

IsSlowRequest(entry) ==
    /\ Carries(entry, "type") /\ entry.type = "request"
    /\ Carries(entry, "duration") /\ entry.duration > 2000

IsSlowQuery(entry) ==
    /\ Carries(entry, "type") /\ entry.type = "query"
    /\ Carries(entry, "duration") /\ entry.duration > 1000

IsHighMemory(entry) ==
    Carries(entry, "memory") /\ entry.memory.heapUsed > 500 * 1024 * 1024

IsHighCpu(entry) ==
    Carries(entry, "cpu") /\ entry.cpu.usage > 80

\* C24: for every entry, whatever its level: it is appended to the
\* slow-request list iff it is tagged request and took more than 2000 ms,
\* to the slow-query list iff it is tagged query and took more than
\* 1000 ms, to the high-memory list iff its heap use is above
\* 500 * 1024 * 1024 and to the high-CPU list iff its CPU usage is above
\* 80; an entry without the field is not appended.  Each list holds, in
\* order, what the entries analysed so far with that property carried.
C24_PerformanceLists ==
    LET slowRequests == SelectSeq(analysed, IsSlowRequest)
        slowQueries == SelectSeq(analysed, IsSlowQuery)
        highMemory == SelectSeq(analysed, IsHighMemory)
        highCpu == SelectSeq(analysed, IsHighCpu)
        performance == results.performance
    IN  /\ [k \in 1..Len(performance.slowRequests) |-> performance.slowRequests[k].duration]
            = [k \in 1..Len(slowRequests) |-> slowRequests[k].duration]
        /\ [k \in 1..Len(performance.slowQueries) |-> performance.slowQueries[k].duration]
            = [k \in 1..Len(slowQueries) |-> slowQueries[k].duration]
        /\ [k \in 1..Len(performance.highMemory) |-> performance.highMemory[k].used]
            = [k \in 1..Len(highMemory) |-> highMemory[k].memory.heapUsed]
        /\ [k \in 1..Len(performance.highCpu) |-> performance.highCpu[k].usage]
            = [k \in 1..Len(highCpu) |-> highCpu[k].cpu.usage]

\* An error entry that is a slow request, a request of exactly 2000 ms at
\* a CPU usage of exactly 80 and a slow query were analysed: one slow
\* request, one slow query, no high-CPU sample.
C24_Witness ==
    /\ Len(analysed) = 3
    /\ \E i \in 1..3 : analysed[i].level = "error" /\ IsSlowRequest(analysed[i])
    /\ \E i \in 1..3 :
            /\ Carries(analysed[i], "duration") /\ analysed[i].duration = 2000
            /\ Carries(analysed[i], "cpu") /\ analysed[i].cpu.usage = 80
    /\ \E i \in 1..3 : IsSlowQuery(analysed[i])
    /\ Len(results.performance.slowRequests) = 1
    /\ Len(results.performance.slowQueries) = 1
    /\ Len(results.performance.highCpu) = 0
    /\ Len(results.performance.highMemory) = 1


(***************************************************************************)
(* LogAnalyzer: the frequency tables                                       *)
(***************************************************************************)

\* The count a Map holds for a key, 0 when it does not hold the key.
CountIn(m, k) ==
    IF MapHas(m, k) THEN MapGet(m, k) ELSE 0

\* The pairs of a summary list are pairs of the map, there are at most 5 of
\* them (all of them when the map holds fewer), they are in non-increasing
\* order of count, and no pair of the map that is left out has a greater
\* count than a listed one.
ListsMostFrequent(list, m) ==
    LET listed == {list[k].key : k \in 1..Len(list)}
    IN  /\ Len(list) = (IF Len(m) < 5 THEN Len(m) ELSE 5)
        /\ Cardinality(listed) = Len(list)
        /\ \A k \in 1..Len(list) :
                MapHas(m, list[k].key) /\ MapGet(m, list[k].key) = list[k].value
        /\ \A k \in 1..(Len(list) - 1) : list[k].value >= list[k + 1].value
        /\ \A i \in 1..Len(m) :
                m[i].key \notin listed =>
                    \A k \in 1..Len(list) : m[i].value <= list[k].value

\* C25: after any sequence of analysed entries the endpoint count of a
\* path is the number of entries, of any level, that carry the path, and
\* the count of an error signature 'path: message' is the number of error
\* entries with that signature; mostFrequentEndpoints and
\* mostFrequentErrors of the summary hold at most 5 items each, in
\* non-increasing order of count, and no key left out has a greater count
\* than a listed one.
C25_FrequencyTables ==
    LET carrying(path) ==
            {i \in 1..Len(analysed) :
                Carries(analysed[i], "path") /\ analysed[i].path = path}
        signed(signature) ==
            {i \in 1..Len(analysed) :
                analysed[i].level = "error" /\ ErrorKey(analysed[i]) = signature}
        paths == {TrafficPaths[k] : k \in 1..Len(TrafficPaths)}
        signatures == {ErrorKey(entry) : entry \in TrafficEntries}
    IN  /\ \A path \in paths :
                CountIn(results.patterns.frequentEndpoints, path)
                    = Cardinality(carrying(path))
        /\ \A signature \in signatures :
                CountIn(results.patterns.commonErrors, signature)
                    = Cardinality(signed(signature))
        /\ \A i \in 1..Len(results.patterns.frequentEndpoints) :
                results.patterns.frequentEndpoints[i].key \in paths
        /\ \A i \in 1..Len(results.patterns.commonErrors) :
                results.patterns.commonErrors[i].key \in signatures
        /\ pc = "done" =>
                /\ ListsMostFrequent(report.summary.mostFrequentEndpoints,
                                     results.patterns.frequentEndpoints)
                /\ ListsMostFrequent(report.summary.mostFrequentErrors,
                                     results.patterns.commonErrors)

\* Six paths were met, the first one by a non-error entry, the sixth one
\* twice: the summary lists the sixth path first and leaves one out.
C25_Witness ==
    /\ pc = "done"
    /\ Len(results.patterns.frequentEndpoints) = 6
    /\ \E i \in 1..Len(analysed) : analysed[i].level = "info"
    /\ report.summary.mostFrequentEndpoints[1]
            = [key |-> TrafficPaths[6], value |-> 2]
    /\ Len(report.summary.mostFrequentEndpoints) = 5
    /\ Len(report.summary.mostFrequentErrors) = 5


(***************************************************************************)
(* analyzeLogEntry: the error counters                                     *)
(***************************************************************************)

\* The sum of the six category counters.
SumOfCounters(errors) ==
    errors.timeout + errors.memory + errors.database
        + errors.api + errors.security + errors.other

\* One analyzeLogEntry call: an error entry adds 1 to exactly one of the
\* six counters and leaves the other five alone, an entry of another
\* level leaves the counters, the error signatures and the error
\* timestamps alone.
CountsOneError ==
    analysed' # analysed =>
        LET entry == analysed'[Len(analysed')]
        IN  IF entry.level = "error"
            THEN \E category \in DOMAIN results.errors :
                    /\ results'.errors[category] = results.errors[category] + 1
                    /\ \A other \in DOMAIN results.errors \ {category} :
                            results'.errors[other] = results.errors[other]
            ELSE /\ results'.errors = results.errors
                 /\ results'.patterns.commonErrors = results.patterns.commonErrors
                 /\ results'.patterns.errorTimes = results.patterns.errorTimes

\* The counters hold six categories, and their sum, which the summary
\* returns as totalErrors, is the number of error entries analysed.
TotalIsErrorEntries ==
    LET errorEntries == {i \in 1..Len(analysed) : analysed[i].level = "error"}
    IN  /\ DOMAIN results.errors
            = {"timeout", "memory", "database", "api", "security", "other"}
        /\ SumOfCounters(results.errors) = Cardinality(errorEntries)
        /\ pc = "done" => report.summary.totalErrors = Cardinality(errorEntries)

\* C26: every analyzeLogEntry call on an error-level entry increments
\* exactly one of the six category counters by 1, every call on an entry
\* of another level leaves the category counters, the error signatures and
\* the error timestamps unchanged, and summary.totalErrors, the sum of the
\* six counters, is the number of error-level entries analysed.
C26_ErrorsCountedOnce ==
    [][CountsOneError]_vars /\ []TotalIsErrorEntries

\* Two error entries and a warning whose message matches the timeout
\* pattern were analysed and the summary reports 2 errors.
C26_Witness ==
    /\ pc = "done"
    /\ Len(analysed) = 3
    /\ \E i \in 1..3 : analysed[i].level = "warn" /\ analysed[i].message = MsgTimedOut
    /\ Cardinality({i \in 1..3 : analysed[i].level = "error"}) = 2
    /\ report.summary.totalErrors = 2


(***************************************************************************)
(* FeedbackAnalyzer: the tier of a surfaced category                       *)
(***************************************************************************)

\* C27: every error category with a count of 5 or more whose
\* lastOccurrence is not later than the time of the call is returned with
\* a priority between 0.6 and 1 and has its recommendation in the
\* immediate or the high tier, none in the medium or the low tier; a
\* category with a count of 5 or more whose severity is critical has its
\* recommendation in the immediate tier.
C27_SurfacedIsImmediateOrHigh ==
    \A r \in 1..Len(feedbackReports) :
        LET returnedPatterns == feedbackReports[r].patterns.errorPatterns
            recommendations == feedbackReports[r].recommendations
            now == feedbackReports[r].timestamp
            Count(tier, type) == Cardinality(PlacesIn(recommendations, tier, type))
        IN  \A k \in 1..Len(patternsErrors) :
                LET type == patternsErrors[k].key
                    data == patternsErrors[k].value
                IN  data.count >= 5 =>
                        /\ data.lastOccurrence <= now =>
                            /\ \E i \in 1..Len(returnedPatterns) :
                                    /\ returnedPatterns[i].type = type
                                    /\ returnedPatterns[i].priority >= 6000000
                                    /\ returnedPatterns[i].priority <= 10000000
                            /\ Count("immediate", type) + Count("high", type) = 1
                            /\ Count("medium", type) + Count("low", type) = 0
                        /\ data.severity = "critical" =>
                            /\ Count("immediate", type) = 1
                            /\ Count("high", type) = 0

\* A report made two days after the last occurrence of a critical and of
\* a minor category, both with a count of 5 or more: the critical one is in
\* the immediate tier, the minor one in the high tier.
C27_Witness ==
    \E r \in 1..Len(feedbackReports) :
        LET recommendations == feedbackReports[r].recommendations
            now == feedbackReports[r].timestamp
        IN  \E c, m \in 1..Len(patternsErrors) :
                /\ patternsErrors[c].value.severity = "critical"
                /\ patternsErrors[m].value.severity = "minor"
                /\ patternsErrors[c].value.count >= 5
                /\ patternsErrors[m].value.count >= 5
                /\ patternsErrors[c].value.lastOccurrence = now - 2 * DayMs
                /\ patternsErrors[m].value.lastOccurrence = now - 2 * DayMs
                /\ PlacesIn(recommendations, "immediate", patternsErrors[c].key) # {}
                /\ PlacesIn(recommendations, "high", patternsErrors[m].key) # {}


(***************************************************************************)
(* FeedbackCollector: the counters after a failed call                     *)
(***************************************************************************)

\* C28: a collectFeedback call that ends in an error leaves the metrics
\* counters as they were before the call, so that after any sequence of
\* collectFeedback and resetMetrics calls totalFeedback is the number of
\* collectFeedback calls that returned success since the last reset.
C28_FailedCallLeavesCounters ==
    metrics.totalFeedback = succeeded


(***************************************************************************)
(* analyzeLogs: what a rejected line leaves behind                         *)
(***************************************************************************)

\* The lines of the log files that are not rejected: they are not blank,
\* their parse and their analysis raise no error.
AcceptedLines ==
    LET Accepted(line) ==
            /\ line.json = "object"
            /\ ~AnalysisThrows(JSONParse(line))
    IN  SelectSeq(AllLogLines, Accepted)

\* The lines whose analysis raised an error.
LinesAnalysisRejected ==
    LET Rejected(line) ==
            /\ line.json \in {"object", "null"}
            /\ AnalysisThrows(JSONParse(line))
    IN  SelectSeq(AllLogLines, Rejected)

\* C29: a line of a log file that is rejected, because its JSON parse or
\* its analysis raises an error, changes none of the accumulated results:
\* the error counters, performance lists, signature and endpoint counts
\* and error timestamps a run returns are those of the same files without
\* the rejected lines.
C29_RejectedLineChangesNothing ==
    \A run \in Runs :
        logRuns[run].pc = "done" =>
            logRuns[run].report.details
                = analyzePatterns(EntriesAnalysed(AcceptedLines, Len(AcceptedLines)))


(***************************************************************************)
(* RollbackManager.rollback (src/scripts/rollback.js:52-93, 165-176)       *)
(*                                                                         *)
(* A call is a record: where it stands, the commands and steps it has      *)
(* started in its try block (trace), whether maintenance mode is on, the   *)
(* error its catch block caught and how it ended.  Every execSync and      *)
(* every awaited step may fail.                                            *)
(***************************************************************************)

\* The most rollback calls of one behaviour.
MaxRollbacks == 2

\* rollback.js:66-82: the awaited steps, in the order of the code.
RollbackSteps ==
    <<"stopApplication", "restoreDatabase", "restoreCode",
      "restoreConfig", "startApplication", "verifyRollback">>

\* The rollback points that were saved, and the ids rollback is called with.
SavedPoints ==
    {"2024-01-01"}

PointIds ==
    SavedPoints \cup {"unknown"}

\* What loadRollbackPoint may do: return the point, return nothing, throw.
LoadOutcomes ==
    {"point", "none", "throws"}

\* The error a failed command or step throws.
FailureOf(what) ==
    what \o " failed"

\* rollback.js:52-56: rollback(pointId) is called; maintenance is as the
\* call before left it, off before the first call.
NewRollback(pointId) ==
    [pointId |-> pointId, pc |-> "maintenance:on", trace |-> <<>>,
     maintenance |-> IF rollbacks = <<>> THEN "off"
                     ELSE rollbacks[Len(rollbacks)].maintenance,
     verified |-> FALSE, caught |-> "none", outcome |-> [kind |-> "pending"]]

\* The rollback call in flight, if there is one.
CurrentRollback ==
    rollbacks[Len(rollbacks)]

RollbackAt(place) ==
    rollbacks # <<>> /\ CurrentRollback.pc = place

\* The last call of rollbacks is replaced by next.
RollbackBecomes(next) ==
    rollbacks' = [rollbacks EXCEPT ![Len(rollbacks)] = next]

\* rollback.js:88-90: the catch block is entered with error and
\* handleRollbackFailure is called.
RollbackCatch(t, error) ==
    [t EXCEPT !.pc = "handleRollbackFailure", !.caught = error]

\* The place of a step in RollbackSteps, 0 for what is no step.
StepNumber(name) ==
    IF \E k \in 1..Len(RollbackSteps) : RollbackSteps[k] = name
    THEN CHOOSE k \in 1..Len(RollbackSteps) : RollbackSteps[k] = name
    ELSE 0

InitRollback ==
    /\ LogsUntouched /\ TextUntouched
    /\ RunsUntouched /\ FeedbackUntouched /\ CollectorUntouched /\ TxUntouched
    /\ RollbackUntouched

NotRollback ==
    /\ UNCHANGED logVars
    /\ UNCHANGED textVars
    /\ UNCHANGED <<runVars, feedbackVars, collectorVars, txVars>>

\* rollback.js:52-53: rollback(pointId) is called.
CallRollback(pointId) ==
    /\ Len(rollbacks) < MaxRollbacks
    /\ IF rollbacks = <<>> THEN TRUE ELSE CurrentRollback.pc = "done"
    /\ rollbacks' = Append(rollbacks, NewRollback(pointId))
    /\ NotRollback

\* rollback.js:57-58: execSync('heroku maintenance:on') returns or throws.
EnableMaintenance(ok) ==
    /\ RollbackAt("maintenance:on")
    /\ RollbackBecomes(
          IF ok
          THEN [CurrentRollback EXCEPT !.pc = "loadRollbackPoint",
                    !.maintenance = "on", !.trace = Append(@, "maintenance:on")]
          ELSE RollbackCatch(CurrentRollback, FailureOf("maintenance:on")))
    /\ NotRollback

\* rollback.js:61-67: the rollback point is loaded; without it an Error is
\* thrown, with it stopApplication is started.
LoadRollbackPoint(loaded) ==
    /\ RollbackAt("loadRollbackPoint")
    /\ loaded = "point" => CurrentRollback.pointId \in SavedPoints
    /\ loaded = "none" => CurrentRollback.pointId \notin SavedPoints
    /\ RollbackBecomes(
          CASE loaded = "point" ->
                  [CurrentRollback EXCEPT !.pc = RollbackSteps[1],
                        !.trace = Append(@, RollbackSteps[1])]
            [] loaded = "none" ->
                  RollbackCatch(CurrentRollback,
                      "Rollback point " \o CurrentRollback.pointId \o " not found")
            [] OTHER ->
                  RollbackCatch(CurrentRollback, FailureOf("loadRollbackPoint")))
    /\ NotRollback

\* rollback.js:66-85: the awaited step resolves, and the next step, or
\* after verifyRollback execSync('heroku maintenance:off'), is started; or
\* the step rejects.
RunStep(ok) ==
    /\ rollbacks # <<>>
    /\ StepNumber(CurrentRollback.pc) > 0
    /\ LET k == StepNumber(CurrentRollback.pc)
       IN  RollbackBecomes(
              IF ~ok THEN RollbackCatch(CurrentRollback, FailureOf(RollbackSteps[k]))
              ELSE IF k < Len(RollbackSteps)
                   THEN [CurrentRollback EXCEPT !.pc = RollbackSteps[k + 1],
                            !.trace = Append(@, RollbackSteps[k + 1])]
                   ELSE [CurrentRollback EXCEPT !.pc = "maintenance:off",
                            !.verified = TRUE])
    /\ NotRollback

\* rollback.js:85-86: execSync('heroku maintenance:off') returns, and so
\* does rollback, or it throws.
DisableMaintenance(ok) ==
    /\ RollbackAt("maintenance:off")
    /\ RollbackBecomes(
          IF ok
          THEN [CurrentRollback EXCEPT !.pc = "done", !.maintenance = "off",
                    !.trace = Append(@, "maintenance:off"),
                    !.outcome = [kind |-> "return"]]
          ELSE RollbackCatch(CurrentRollback, FailureOf("maintenance:off")))
    /\ NotRollback

\* rollback.js:165-172: handleRollbackFailure sends the notifications and
\* runs execSync('heroku maintenance:on'); when that throws,
\* handleRollbackFailure rejects and its error leaves rollback.
KeepMaintenanceOn(ok) ==
    /\ RollbackAt("handleRollbackFailure")
    /\ RollbackBecomes(
          IF ok
          THEN [CurrentRollback EXCEPT !.pc = "logDiagnostics", !.maintenance = "on"]
          ELSE [CurrentRollback EXCEPT !.pc = "done",
                    !.outcome = [kind |-> "throw",
                                 error |-> FailureOf("handler maintenance:on")]])
    /\ NotRollback

\* rollback.js:174-175, 187-205, 90-91: logDiagnostics runs three heroku
\* commands and writes a file; when it returns, rollback throws the error
\* it caught, when it throws, that error leaves rollback.
LogDiagnostics(ok) ==
    /\ RollbackAt("logDiagnostics")
    /\ RollbackBecomes(
          [CurrentRollback EXCEPT !.pc = "done",
                !.outcome = [kind |-> "throw",
                             error |-> IF ok THEN CurrentRollback.caught
                                       ELSE FailureOf("logDiagnostics")]])
    /\ NotRollback

NextRollback ==
    \/ \E pointId \in PointIds : CallRollback(pointId)
    \/ \E ok \in BOOLEAN : EnableMaintenance(ok)
    \/ \E loaded \in LoadOutcomes : LoadRollbackPoint(loaded)
    \/ \E ok \in BOOLEAN : RunStep(ok)
    \/ \E ok \in BOOLEAN : DisableMaintenance(ok)
    \/ \E ok \in BOOLEAN : KeepMaintenanceOn(ok)
    \/ \E ok \in BOOLEAN : LogDiagnostics(ok)

SpecRollback ==
    InitRollback /\ [][NextRollback]_vars

(***************************************************************************)
(* Properties of rollback (checked under SpecRollback)                     *)
(***************************************************************************)

\* The steps of the trace, in the order in which they were started.
StepsStarted(t) ==
    LET IsStep(event) == StepNumber(event) > 0
    IN  SelectSeq(t.trace, IsStep)

\* C30: in every rollback call maintenance mode is switched on before the
\* application is stopped or anything is restored, the steps are started
\* in the order stop, restore database, restore code, restore
\* configuration, start, verify, and maintenance mode is switched off only
\* after the verification has succeeded; a call in which the rollback
\* point is missing or a step fails starts no later step, ends with
\* maintenance mode on and throws the error that made it fail.
C30_RollbackOrder ==
    \A c \in 1..Len(rollbacks) :
        LET t == rollbacks[c]
            started == StepsStarted(t)
        IN  /\ started # <<>> => t.trace[1] = "maintenance:on"
            /\ started = SubSeq(RollbackSteps, 1, Len(started))
            /\ (\E k \in 1..Len(t.trace) : t.trace[k] = "maintenance:off") =>
                    t.verified /\ t.trace[Len(t.trace)] = "maintenance:off"
            /\ (t.pc = "done" /\ t.caught # "none") =>
                    /\ \A k \in 1..Len(RollbackSteps) :
                            t.caught = FailureOf(RollbackSteps[k]) =>
                                Len(started) = k
                    /\ t.maintenance = "on"
                    /\ t.outcome = [kind |-> "throw", error |-> t.caught]

=============================================================================
